---- MODULE Spec2Model ----
(***************************************************************************)
(* http-dynamix: the dynamic path builder (SyncDynamicClient and           *)
(* AsyncDynamicClient), the segment formatter and the request operation.   *)
(*                                                                         *)
(* A Python str is a sequence of one-character strings, so that split,     *)
(* replace, lower, upper, capitalize, join and strip are computed and not  *)
(* assumed.  A Python list is an object of the heap `lists`, named by its  *)
(* index: two builders that hold the same index hold the same list.        *)
(***************************************************************************)
EXTENDS Integers, Sequences, FiniteSets, TLC

VARIABLES facade, builders, lists, ret, io, call, transports, scope, flow, log

vars == <<facade, builders, lists, ret, io, call, transports, scope, flow, log>>

(***************************************************************************)
(* Python str operations.                                                  *)
(***************************************************************************)
LowerChars == <<"a","b","c","d","e","f","g","h","i","j","k","l","m",
                "n","o","p","q","r","s","t","u","v","w","x","y","z">>

UpperChars == <<"A","B","C","D","E","F","G","H","I","J","K","L","M",
                "N","O","P","Q","R","S","T","U","V","W","X","Y","Z">>

\* str.lower() / str.upper() on one character
LowerChar(c) ==
    IF \E i \in 1..Len(UpperChars) : UpperChars[i] = c
    THEN LowerChars[CHOOSE i \in 1..Len(UpperChars) : UpperChars[i] = c]
    ELSE c

UpperChar(c) ==
    IF \E i \in 1..Len(LowerChars) : LowerChars[i] = c
    THEN UpperChars[CHOOSE i \in 1..Len(LowerChars) : LowerChars[i] = c]
    ELSE c

lower(s) == [i \in 1..Len(s) |-> LowerChar(s[i])]

upper(s) == [i \in 1..Len(s) |-> UpperChar(s[i])]

\* str.capitalize(): first character upper-cased, the rest lower-cased
capitalize(s) ==
    [i \in 1..Len(s) |-> IF i = 1 THEN UpperChar(s[i]) ELSE LowerChar(s[i])]

\* str.replace(old, new) for one-character old and a str new
RECURSIVE replace(_, _, _)
replace(s, old, new) ==
    IF s = <<>> THEN <<>>
    ELSE (IF Head(s) = old THEN new ELSE <<Head(s)>>) \o replace(Tail(s), old, new)

\* str.split(sep) for a one-character sep: always at least one piece
RECURSIVE split(_, _)
split(s, sep) ==
    IF \A i \in 1..Len(s) : s[i] # sep THEN <<s>>
    ELSE LET i == CHOOSE k \in 1..Len(s) :
                      s[k] = sep /\ \A j \in 1..(k - 1) : s[j] # sep
         IN  <<SubSeq(s, 1, i - 1)>> \o split(SubSeq(s, i + 1, Len(s)), sep)

\* "".join(pieces)
RECURSIVE concat(_)
concat(pieces) ==
    IF pieces = <<>> THEN <<>> ELSE Head(pieces) \o concat(Tail(pieces))

\* sep.join(pieces)
RECURSIVE join(_, _)
join(sep, pieces) ==
    IF pieces = <<>> THEN <<>>
    ELSE IF Len(pieces) = 1 THEN Head(pieces)
    ELSE Head(pieces) \o sep \o join(sep, Tail(pieces))

\* str.strip(c) for one character c: leading and trailing runs of c removed
RECURSIVE lstrip(_, _)
lstrip(s, c) ==
    IF s # <<>> /\ Head(s) = c THEN lstrip(Tail(s), c) ELSE s

RECURSIVE rstrip(_, _)
rstrip(s, c) ==
    IF s # <<>> /\ s[Len(s)] = c THEN rstrip(SubSeq(s, 1, Len(s) - 1), c) ELSE s

strip(s, c) == rstrip(lstrip(s, c), c)

DigitChars == <<"0","1","2","3","4","5","6","7","8","9">>

\* str(n) for an int n
RECURSIVE StrNat(_)
StrNat(n) ==
    IF n < 10 THEN <<DigitChars[n + 1]>>
    ELSE StrNat(n \div 10) \o <<DigitChars[(n % 10) + 1]>>

StrInt(n) == IF n < 0 THEN <<"-">> \o StrNat(0 - n) ELSE StrNat(n)

(***************************************************************************)
(* enums.SegmentFormat: a StrEnum whose auto() values are the lower-cased  *)
(* member names; DEFAULT is an alias of KEBAB.                             *)
(***************************************************************************)
CAMEL == "camel"
FLAT == "flat"
KEBAB == "kebab"
PASCAL == "pascal"
SCREAMING_SNAKE == "screaming_snake"
SNAKE == "snake"
DEFAULT == KEBAB

SegmentFormat == {CAMEL, FLAT, KEBAB, PASCAL, SCREAMING_SNAKE, SNAKE}

\* a segment_format that is no member of SegmentFormat (nothing validates it)
DummyFormat == "dummy"

AnyFormat == SegmentFormat \cup {DummyFormat}

(***************************************************************************)
(* core.segment_format.SegmentFormatter                                    *)
(***************************************************************************)
\* a camel case that capitalizes the first token too
camel_case_CapitalizeFirst(segment) ==
    LET segments == split(segment, "_")
    IN  capitalize(segments[1]) \o
        concat([i \in 1..(Len(segments) - 1) |-> capitalize(segments[i + 1])])

camel_case(segment) ==
    LET segments == split(segment, "_")
    IN  segments[1] \o
        concat([i \in 1..(Len(segments) - 1) |-> capitalize(segments[i + 1])])

flat_case(segment) == lower(replace(segment, "_", <<>>))

kebab_case(segment) == lower(replace(segment, "_", <<"-">>))

pascal_case(segment) ==
    LET segments == split(segment, "_")
    IN  concat([i \in 1..Len(segments) |-> capitalize(segments[i])])

screaming_snake_case(segment) == upper(replace(segment, "_", <<"_">>))

snake_case(segment) == lower(replace(segment, "-", <<"_">>))

\* a match statement whose default branch leaves the segment as it is
case_format_NoFallback(segment_format, segment) ==
    CASE segment_format = CAMEL -> camel_case(segment)
      [] segment_format = FLAT -> flat_case(segment)
      [] segment_format = KEBAB -> kebab_case(segment)
      [] segment_format = PASCAL -> pascal_case(segment)
      [] segment_format = SCREAMING_SNAKE -> screaming_snake_case(segment)
      [] segment_format = SNAKE -> snake_case(segment)
      [] OTHER -> segment

\* the match statement of transform
case_format(segment_format, segment) ==
    CASE segment_format = CAMEL -> camel_case(segment)
      [] segment_format = FLAT -> flat_case(segment)
      [] segment_format = KEBAB -> kebab_case(segment)
      [] segment_format = PASCAL -> pascal_case(segment)
      [] segment_format = SCREAMING_SNAKE -> screaming_snake_case(segment)
      [] segment_format = SNAKE -> snake_case(segment)
      [] OTHER -> kebab_case(segment)

\* a transform that looks the formatted name up, not the raw one
transform_LookupAfter(segment_format, known_paths, segment) ==
    LET formatted == case_format(segment_format, segment)
    IN  IF formatted \in DOMAIN known_paths THEN known_paths[formatted]
        ELSE formatted

transform(segment_format, known_paths, segment) ==
    IF segment \in DOMAIN known_paths THEN known_paths[segment]
    ELSE case_format(segment_format, segment)

(***************************************************************************)
(* Bounds and inputs of the model.                                         *)
(***************************************************************************)
\* builders alive at once when every builder may be the receiver
MaxBuilders == 3

\* builders made by one chained expression (each step applied to the last)
MaxChain == 4

S_users == <<"u","s","e","r","s">>
S_posts == <<"p","o","s","t","s">>
S_user_id == <<"u","s","e","r","_","i","d">>
S_john == <<"j","o","h","n">>
S_get == <<"g","e","t">>
S_close == <<"c","l","o","s","e">>
S_My_Posts == <<"M","y","_","P","o","s","t","s">>

BaseUrl == <<"h","t","t","p",":","/","/","x">>

BaseUrls == { BaseUrl, BaseUrl \o <<"/">> }

\* known_paths tables: a dict is a function from its keys
NoKnownPaths == [k \in {} |-> <<>>]

KnownPathTables == { NoKnownPaths, [k \in {S_posts} |-> S_My_Posts] }

(***************************************************************************)
(* Keys of an index access and values of a segment.  kind is the Python    *)
(* type: "none" (None), "str", "int", or "format" (a SegmentFormat         *)
(* member, for which isinstance(key, SegmentFormat) is true).              *)
(***************************************************************************)
None == [kind |-> "none", s |-> <<>>, n |-> 0, f |-> ""]

StrKey(s) == [kind |-> "str", s |-> s, n |-> 0, f |-> ""]

IntKey(n) == [kind |-> "int", s |-> <<>>, n |-> n, f |-> ""]

FormatKey(f) == [kind |-> "format", s |-> <<>>, n |-> 0, f |-> f]

\* str(value) of a str or an int
str(v) == IF v.kind = "int" THEN StrInt(v.n) ELSE v.s

(***************************************************************************)
(* core.segment_format.PathSegment                                         *)
(***************************************************************************)
PathSegment(name, format, value) ==
    [name |-> name, format |-> format, value |-> value]

PathSegment_with_format(self, format) ==
    PathSegment(self.name, format, self.value)

(***************************************************************************)
(* Attribute lookup.  Python calls __getattr__ only for a name that the    *)
(* normal lookup does not find: the dataclass fields and the methods of    *)
(* the class (and of the Protocol class it inherits from) are found first. *)
(***************************************************************************)
VerbMethodNames ==
    { <<"g","e","t">>, <<"p","o","s","t">>, <<"p","u","t">>,
      <<"d","e","l","e","t","e">>, <<"p","a","t","c","h">>,
      <<"h","e","a","d">>, <<"o","p","t","i","o","n","s">>,
      <<"t","r","a","c","e">>, <<"c","o","n","n","e","c","t">> }

DynamicClientFieldNames ==
    { <<"c","l","i","e","n","t">>, <<"s","e","g","m","e","n","t","s">>,
      <<"s","e","g","m","e","n","t","_","f","o","r","m","a","t">>,
      <<"k","n","o","w","n","_","p","a","t","h","s">> }

DynamicClientMethodNames ==
    VerbMethodNames \cup
    { <<"r","e","q","u","e","s","t">>,
      <<"w","i","t","h","_","f","o","r","m","a","t">>,
      <<"_","t","r","a","n","s","f","o","r","m","_","p","a","t","h">>,
      <<"_","g","e","t","_","u","r","l">> }

SyncDynamicClientAttrs ==
    DynamicClientFieldNames \cup DynamicClientMethodNames \cup {S_close}

AsyncDynamicClientAttrs ==
    DynamicClientFieldNames \cup DynamicClientMethodNames
        \cup { <<"a","c","l","o","s","e">> }

ClientFieldNames ==
    { <<"b","a","s","e","_","u","r","l">>,
      <<"s","e","g","m","e","n","t","_","f","o","r","m","a","t">>,
      <<"k","n","o","w","n","_","p","a","t","h","s">>,
      <<"c","l","i","e","n","t","_","k","w","a","r","g","s">>,
      <<"_","c","l","i","e","n","t">> }

SyncClientAttrs == ClientFieldNames \cup {S_close}

AsyncClientAttrs == ClientFieldNames \cup { <<"a","c","l","o","s","e">> }

(***************************************************************************)
(* State.                                                                  *)
(*   facade    the SyncClient or AsyncClient                               *)
(*   lists     the heap of Python list objects (segment lists)             *)
(*   builders  the dynamic clients made so far; segments is the index of   *)
(*             the builder's list in `lists`.  parent and via record how   *)
(*             the builder was made (parent 0: from the facade, -1: by its *)
(*             constructor); the code keeps neither.                       *)
(*   ret       what the last operation returned or raised                  *)
(*   io        what the last request did with the transport and the logger *)
(*   call      the call of SegmentFormatter.transform being observed       *)
(*   transports  the heap of transport objects (httpx.Client or            *)
(*             httpx.AsyncClient); the facade's _client is an index in it  *)
(*   scope     where the program is in `with facade:` / `async with`       *)
(*   flow      the generator made by MultiAuth.auth_flow and its driver    *)
(*   log       the call of the response logger being observed              *)
(***************************************************************************)
Via(op, arg) == [op |-> op, arg |-> arg]

NoRet == [op |-> "none", recv |-> 0, arg |-> None, result |-> "none",
          new |-> 0, exc |-> "", kwargs |-> <<>>]

Returned(op, recv, arg, new) ==
    [op |-> op, recv |-> recv, arg |-> arg, result |-> "builder",
     new |-> new, exc |-> "", kwargs |-> <<>>]

Found(op, recv, arg) ==
    [op |-> op, recv |-> recv, arg |-> arg, result |-> "attribute",
     new |-> 0, exc |-> "", kwargs |-> <<>>]

Raised(op, recv, arg, exc) ==
    [op |-> op, recv |-> recv, arg |-> arg, result |-> "raise",
     new |-> 0, exc |-> exc, kwargs |-> <<>>]

\* an operation that returned None
Done(op) == [op |-> op, recv |-> 0, arg |-> None, result |-> "none",
             new |-> 0, exc |-> "", kwargs |-> <<>>]

NoIo == <<>>

\* no SegmentFormatter call is being observed
NoCall == [segment_format |-> DEFAULT, known_paths |-> NoKnownPaths,
           segment |-> <<>>, result |-> <<>>, done |-> FALSE]

\* a transport as __post_init__ makes it
OpenTransport == [is_closed |-> FALSE, close_calls |-> 0]

\* the program has not entered the with statement
NoScope == [pc |-> "before", raised |-> FALSE, propagated |-> FALSE]

\* no auth flow has been made
NoFlow == [pc |-> "none", auth_methods |-> <<>>, done |-> 0, at |-> 0,
           headers |-> {}, yields |-> <<>>, sent |-> <<>>,
           inner_yields |-> <<>>, inner_got |-> <<>>]

\* no logger call is being observed
NoLog == [pc |-> "none", max_body_length |-> 0, status_code |-> 0,
          headers |-> {}, content |-> <<>>, content_type |-> <<>>,
          formatters |-> <<>>, formatter |-> "",
          log_data |-> [headers |-> {},
                        body |-> [kind |-> "none", formatter |-> "", s |-> <<>>]]]

\* SyncClient(base_url, segment_format, known_paths) or the AsyncClient;
\* __post_init__ has made the transport, the first object of the heap
Facades(base_urls, formats, tables) ==
    [cls : {"SyncClient", "AsyncClient"}, base_url : base_urls,
     segment_format : formats, known_paths : tables, _client : {1}]

Init ==
    /\ facade \in Facades({BaseUrl}, AnyFormat, KnownPathTables)
    /\ builders = <<>>
    /\ lists = <<>>
    /\ ret = NoRet
    /\ io = NoIo
    /\ call = NoCall
    /\ transports = <<OpenTransport>>
    /\ scope = NoScope
    /\ flow = NoFlow
    /\ log = NoLog

\* the dynamic client class a facade makes
DynamicClass == IF facade.cls = "SyncClient" THEN "SyncDynamicClient"
                ELSE "AsyncDynamicClient"

\* self.__class__(client=..., segments=<a list>, segment_format=..., known_paths=...)
\* with the list stored in the heap at index `at`
Construct(cls, client, at, segment_format, known_paths, parent, via) ==
    [cls |-> cls, client |-> client, segments |-> at,
     segment_format |-> segment_format, known_paths |-> known_paths,
     parent |-> parent, via |-> via]

(***************************************************************************)
(* SyncClient.__getattr__ / AsyncClient.__getattr__                        *)
(***************************************************************************)
SyncClient_getattr(name) ==
    /\ facade.cls = "SyncClient"
    /\ IF name \in SyncClientAttrs
       THEN /\ ret' = Found("getattr", 0, StrKey(name))
            /\ UNCHANGED <<builders, lists>>
       ELSE /\ lists' = Append(lists,
                    <<PathSegment(name, facade.segment_format, None)>>)
            /\ builders' = Append(builders,
                    Construct("SyncDynamicClient", 1, Len(lists) + 1,
                              facade.segment_format, facade.known_paths,
                              0, Via("getattr", StrKey(name))))
            /\ ret' = Returned("getattr", 0, StrKey(name), Len(builders) + 1)
    /\ UNCHANGED <<facade, io, call, transports, scope, flow, log>>

AsyncClient_getattr(name) ==
    /\ facade.cls = "AsyncClient"
    /\ IF name \in AsyncClientAttrs
       THEN /\ ret' = Found("getattr", 0, StrKey(name))
            /\ UNCHANGED <<builders, lists>>
       ELSE /\ lists' = Append(lists,
                    <<PathSegment(name, facade.segment_format, None)>>)
            /\ builders' = Append(builders,
                    Construct("AsyncDynamicClient", 1, Len(lists) + 1,
                              facade.segment_format, facade.known_paths,
                              0, Via("getattr", StrKey(name))))
            /\ ret' = Returned("getattr", 0, StrKey(name), Len(builders) + 1)
    /\ UNCHANGED <<facade, io, call, transports, scope, flow, log>>

\* SyncDynamicClient(client=..., segments=[]) / AsyncDynamicClient(...): the
\* dataclass constructor called directly, the other fields at their defaults
DynamicClient_init ==
    /\ lists' = Append(lists, <<>>)
    /\ builders' = Append(builders,
            Construct(DynamicClass, 1, Len(lists) + 1, DEFAULT, NoKnownPaths,
                      -1, Via("init", None)))
    /\ ret' = Returned("init", 0, None, Len(builders) + 1)
    /\ UNCHANGED <<facade, io, call, transports, scope, flow, log>>

(***************************************************************************)
(* SyncDynamicClient                                                       *)
(***************************************************************************)
\* a _transform_path that renders the name of every segment, valued or not
Sync_transformed_segments_NameOnly(self) ==
    LET segments == lists[self.segments]
    IN  [i \in 1..Len(segments) |->
            transform(self.segment_format, self.known_paths, segments[i].name)]

\* a _transform_path that looks the name up in known_paths before the value
Sync_transformed_segments_OverrideFirst(self) ==
    LET segments == lists[self.segments]
    IN  [i \in 1..Len(segments) |->
            IF segments[i].name \in DOMAIN self.known_paths
            THEN self.known_paths[segments[i].name]
            ELSE IF segments[i].value.kind # "none"
            THEN str(segments[i].value)
            ELSE transform(self.segment_format, self.known_paths,
                           segments[i].name)]

\* the list the loop of _transform_path builds, one piece per segment
Sync_transformed_segments(self) ==
    LET segments == lists[self.segments]
    IN  [i \in 1..Len(segments) |->
            IF segments[i].value.kind # "none"
            THEN str(segments[i].value)
            ELSE transform(self.segment_format, self.known_paths,
                           segments[i].name)]

Sync_transform_path(self) == join(<<"/">>, Sync_transformed_segments(self))

\* a __getattr__ that puts the new segment first
Sync_getattr_Prepend(r, name) ==
    LET self == builders[r] IN
    /\ self.cls = "SyncDynamicClient"
    /\ IF name \in SyncDynamicClientAttrs
       THEN /\ ret' = Found("getattr", r, StrKey(name))
            /\ UNCHANGED <<builders, lists>>
       ELSE LET new_segments ==
                    <<PathSegment(name, self.segment_format, None)>>
                        \o lists[self.segments]
            IN  /\ lists' = Append(lists, new_segments)
                /\ builders' = Append(builders,
                        Construct(self.cls, self.client, Len(lists) + 1,
                                  self.segment_format, self.known_paths,
                                  r, Via("getattr", StrKey(name))))
                /\ ret' = Returned("getattr", r, StrKey(name), Len(builders) + 1)
    /\ UNCHANGED <<facade, io, call, transports, scope, flow, log>>

\* a __getattr__ that appends to the receiver's own list, without the copy
Sync_getattr_InPlace(r, name) ==
    LET self == builders[r] IN
    /\ self.cls = "SyncDynamicClient"
    /\ IF name \in SyncDynamicClientAttrs
       THEN /\ ret' = Found("getattr", r, StrKey(name))
            /\ UNCHANGED <<builders, lists>>
       ELSE /\ lists' = [lists EXCEPT ![self.segments] =
                    Append(@, PathSegment(name, self.segment_format, None))]
            /\ builders' = Append(builders,
                    Construct(self.cls, self.client, self.segments,
                              self.segment_format, self.known_paths,
                              r, Via("getattr", StrKey(name))))
            /\ ret' = Returned("getattr", r, StrKey(name), Len(builders) + 1)
    /\ UNCHANGED <<facade, io, call, transports, scope, flow, log>>

\* a __getattr__ that forgets the receiver's format
Sync_getattr_DefaultFormat(r, name) ==
    LET self == builders[r] IN
    /\ self.cls = "SyncDynamicClient"
    /\ IF name \in SyncDynamicClientAttrs
       THEN /\ ret' = Found("getattr", r, StrKey(name))
            /\ UNCHANGED <<builders, lists>>
       ELSE LET new_segments ==
                    Append(lists[self.segments],
                           PathSegment(name, DEFAULT, None))
            IN  /\ lists' = Append(lists, new_segments)
                /\ builders' = Append(builders,
                        Construct(self.cls, self.client, Len(lists) + 1,
                                  DEFAULT, self.known_paths,
                                  r, Via("getattr", StrKey(name))))
                /\ ret' = Returned("getattr", r, StrKey(name), Len(builders) + 1)
    /\ UNCHANGED <<facade, io, call, transports, scope, flow, log>>

Sync_getattr(r, name) ==
    LET self == builders[r] IN
    /\ self.cls = "SyncDynamicClient"
    /\ IF name \in SyncDynamicClientAttrs
       THEN /\ ret' = Found("getattr", r, StrKey(name))
            /\ UNCHANGED <<builders, lists>>
       ELSE LET new_segments ==
                    Append(lists[self.segments],
                           PathSegment(name, self.segment_format, None))
            IN  /\ lists' = Append(lists, new_segments)
                /\ builders' = Append(builders,
                        Construct(self.cls, self.client, Len(lists) + 1,
                                  self.segment_format, self.known_paths,
                                  r, Via("getattr", StrKey(name))))
                /\ ret' = Returned("getattr", r, StrKey(name), Len(builders) + 1)
    /\ UNCHANGED <<facade, io, call, transports, scope, flow, log>>

\* a __getitem__ that appends the literal as a segment of its own
Sync_getitem_Append(r, key) ==
    LET self == builders[r] IN
    /\ self.cls = "SyncDynamicClient"
    /\ IF lists[self.segments] = <<>>
       THEN /\ ret' = Raised("getitem", r, key, "ValueError")
            /\ UNCHANGED <<builders, lists>>
       ELSE LET copy == lists[self.segments]
                last_segment == copy[Len(copy)]
                new_segments ==
                    IF key.kind = "format"
                    THEN Append(SubSeq(copy, 1, Len(copy) - 1),
                                PathSegment_with_format(last_segment, key.f))
                    ELSE Append(copy, PathSegment(last_segment.name,
                                                  last_segment.format, key))
            IN  /\ lists' = Append(lists, new_segments)
                /\ builders' = Append(builders,
                        Construct(self.cls, self.client, Len(lists) + 1,
                                  self.segment_format, self.known_paths,
                                  r, Via("getitem", key)))
                /\ ret' = Returned("getitem", r, key, Len(builders) + 1)
    /\ UNCHANGED <<facade, io, call, transports, scope, flow, log>>

\* a __getitem__ whose format key makes a fresh segment, without the value
Sync_getitem_FreshSegment(r, key) ==
    LET self == builders[r] IN
    /\ self.cls = "SyncDynamicClient"
    /\ IF lists[self.segments] = <<>>
       THEN /\ ret' = Raised("getitem", r, key, "ValueError")
            /\ UNCHANGED <<builders, lists>>
       ELSE LET copy == lists[self.segments]
                last_segment == copy[Len(copy)]
                popped == SubSeq(copy, 1, Len(copy) - 1)
                new_segments ==
                    IF key.kind = "format"
                    THEN Append(popped, PathSegment(last_segment.name, key.f, None))
                    ELSE Append(popped, PathSegment(last_segment.name,
                                                    last_segment.format, key))
            IN  /\ lists' = Append(lists, new_segments)
                /\ builders' = Append(builders,
                        Construct(self.cls, self.client, Len(lists) + 1,
                                  self.segment_format, self.known_paths,
                                  r, Via("getitem", key)))
                /\ ret' = Returned("getitem", r, key, Len(builders) + 1)
    /\ UNCHANGED <<facade, io, call, transports, scope, flow, log>>

Sync_getitem(r, key) ==
    LET self == builders[r] IN
    /\ self.cls = "SyncDynamicClient"
    /\ IF lists[self.segments] = <<>>
       THEN /\ ret' = Raised("getitem", r, key, "ValueError")
            /\ UNCHANGED <<builders, lists>>
       ELSE LET copy == lists[self.segments]
                last_segment == copy[Len(copy)]
                popped == SubSeq(copy, 1, Len(copy) - 1)
                new_segments ==
                    IF key.kind = "format"
                    THEN Append(popped, PathSegment_with_format(last_segment, key.f))
                    ELSE Append(popped, PathSegment(last_segment.name,
                                                    last_segment.format, key))
            IN  /\ lists' = Append(lists, new_segments)
                /\ builders' = Append(builders,
                        Construct(self.cls, self.client, Len(lists) + 1,
                                  self.segment_format, self.known_paths,
                                  r, Via("getitem", key)))
                /\ ret' = Returned("getitem", r, key, Len(builders) + 1)
    /\ UNCHANGED <<facade, io, call, transports, scope, flow, log>>

\* the new builder holds the receiver's own list object, not a copy
Sync_with_format(r, format) ==
    LET self == builders[r] IN
    /\ self.cls = "SyncDynamicClient"
    /\ builders' = Append(builders,
            Construct(self.cls, self.client, self.segments,
                      format, self.known_paths,
                      r, Via("with_format", FormatKey(format))))
    /\ ret' = Returned("with_format", r, FormatKey(format), Len(builders) + 1)
    /\ UNCHANGED <<facade, lists, io, call, transports, scope, flow, log>>

(***************************************************************************)
(* AsyncDynamicClient                                                      *)
(***************************************************************************)
\* the list the loop of _transform_path builds, one piece per segment
Async_transformed_segments(self) ==
    LET segments == lists[self.segments]
    IN  [i \in 1..Len(segments) |->
            IF segments[i].value.kind # "none"
            THEN str(segments[i].value)
            ELSE transform(self.segment_format, self.known_paths,
                           segments[i].name)]

Async_transform_path(self) == join(<<"/">>, Async_transformed_segments(self))

Async_getattr(r, name) ==
    LET self == builders[r] IN
    /\ self.cls = "AsyncDynamicClient"
    /\ IF name \in AsyncDynamicClientAttrs
       THEN /\ ret' = Found("getattr", r, StrKey(name))
            /\ UNCHANGED <<builders, lists>>
       ELSE LET new_segments ==
                    Append(lists[self.segments],
                           PathSegment(name, self.segment_format, None))
            IN  /\ lists' = Append(lists, new_segments)
                /\ builders' = Append(builders,
                        Construct(self.cls, self.client, Len(lists) + 1,
                                  self.segment_format, self.known_paths,
                                  r, Via("getattr", StrKey(name))))
                /\ ret' = Returned("getattr", r, StrKey(name), Len(builders) + 1)
    /\ UNCHANGED <<facade, io, call, transports, scope, flow, log>>

\* a __getitem__ without the check: list.pop() on an empty list raises IndexError
Async_getitem_NoCheck(r, key) ==
    LET self == builders[r] IN
    /\ self.cls = "AsyncDynamicClient"
    /\ IF lists[self.segments] = <<>>
       THEN /\ ret' = Raised("getitem", r, key, "IndexError")
            /\ UNCHANGED <<builders, lists>>
       ELSE LET copy == lists[self.segments]
                last_segment == copy[Len(copy)]
                popped == SubSeq(copy, 1, Len(copy) - 1)
                new_segments ==
                    IF key.kind = "format"
                    THEN Append(popped, PathSegment_with_format(last_segment, key.f))
                    ELSE Append(popped, PathSegment(last_segment.name,
                                                    last_segment.format, key))
            IN  /\ lists' = Append(lists, new_segments)
                /\ builders' = Append(builders,
                        Construct(self.cls, self.client, Len(lists) + 1,
                                  self.segment_format, self.known_paths,
                                  r, Via("getitem", key)))
                /\ ret' = Returned("getitem", r, key, Len(builders) + 1)
    /\ UNCHANGED <<facade, io, call, transports, scope, flow, log>>

Async_getitem(r, key) ==
    LET self == builders[r] IN
    /\ self.cls = "AsyncDynamicClient"
    /\ IF lists[self.segments] = <<>>
       THEN /\ ret' = Raised("getitem", r, key, "ValueError")
            /\ UNCHANGED <<builders, lists>>
       ELSE LET copy == lists[self.segments]
                last_segment == copy[Len(copy)]
                popped == SubSeq(copy, 1, Len(copy) - 1)
                new_segments ==
                    IF key.kind = "format"
                    THEN Append(popped, PathSegment_with_format(last_segment, key.f))
                    ELSE Append(popped, PathSegment(last_segment.name,
                                                    last_segment.format, key))
            IN  /\ lists' = Append(lists, new_segments)
                /\ builders' = Append(builders,
                        Construct(self.cls, self.client, Len(lists) + 1,
                                  self.segment_format, self.known_paths,
                                  r, Via("getitem", key)))
                /\ ret' = Returned("getitem", r, key, Len(builders) + 1)
    /\ UNCHANGED <<facade, io, call, transports, scope, flow, log>>

\* a with_format that keeps the receiver's format
Async_with_format_Keep(r, format) ==
    LET self == builders[r] IN
    /\ self.cls = "AsyncDynamicClient"
    /\ builders' = Append(builders,
            Construct(self.cls, self.client, self.segments,
                      self.segment_format, self.known_paths,
                      r, Via("with_format", FormatKey(format))))
    /\ ret' = Returned("with_format", r, FormatKey(format), Len(builders) + 1)
    /\ UNCHANGED <<facade, lists, io, call, transports, scope, flow, log>>

Async_with_format(r, format) ==
    LET self == builders[r] IN
    /\ self.cls = "AsyncDynamicClient"
    /\ builders' = Append(builders,
            Construct(self.cls, self.client, self.segments,
                      format, self.known_paths,
                      r, Via("with_format", FormatKey(format))))
    /\ ret' = Returned("with_format", r, FormatKey(format), Len(builders) + 1)
    /\ UNCHANGED <<facade, lists, io, call, transports, scope, flow, log>>

(***************************************************************************)
(* request.  io is the trace of what one request does, in order: the call  *)
(* through the transport, then either the HTTPStatusError raised or the    *)
(* call of loggix followed by the return.                                  *)
(***************************************************************************)
MethodKey(m) == [kind |-> "method", s |-> <<>>, n |-> 0, f |-> m]

Event(e, response) == [e |-> e, response |-> response]

\* the response of self.client._client.request(method.value, url, **kwargs)
Response(status_code, method, url, kwargs) ==
    [status_code |-> status_code, method |-> method, url |-> url,
     kwargs |-> kwargs]

\* keyword arguments: a dict from argument names to values.  A value is
\* None, a str, an int or an empty mapping.
EmptyDict == [kind |-> "dict", s |-> <<>>, n |-> 0, f |-> ""]

NoKwargs == <<>>

\* a filter that keeps the truthy values only
request_kwargs_Truthy(kwargs) ==
    [k \in {k \in DOMAIN kwargs :
                kwargs[k] \notin {None, IntKey(0), StrKey(<<>>), EmptyDict}}
        |-> kwargs[k]]

\* {k: v for k, v in kwargs.items() if v is not None}
request_kwargs(kwargs) ==
    [k \in {k \in DOMAIN kwargs : kwargs[k] # None} |-> kwargs[k]]

\* response.raise_for_status() of the transport library: the set of its
\* outcomes, TRUE for raising HTTPStatusError.  A 2xx status never raises
\* and a 4xx or 5xx status always does; whether a 1xx or 3xx status raises
\* is the library's convention, which this code does not fix.
raise_for_status(status_code) ==
    IF status_code \div 100 = 2 THEN {FALSE}
    ELSE IF status_code \div 100 \in {4, 5} THEN {TRUE}
    ELSE BOOLEAN

\* httpx.URL(url) leaves a URL of these characters as it is
Sync_get_url(self) ==
    strip(facade.base_url \o <<"/">> \o Sync_transform_path(self), "/")

Async_get_url(self) ==
    strip(facade.base_url \o <<"/">> \o Async_transform_path(self), "/")

\* a request that calls loggix before raise_for_status
Sync_request_body_LogFirst(caller, r, method, kwargs, status_code, raises) ==
    LET self == builders[r]
        url == Sync_get_url(self)
        response == Response(status_code, method, url, request_kwargs(kwargs))
    IN  /\ self.cls = "SyncDynamicClient"
        /\ raises \in raise_for_status(status_code)
        /\ io' = <<Event("request", response), Event("loggix", response)>> \o
                 (IF raises THEN <<Event("raise", response)>>
                  ELSE <<Event("return", response)>>)
        /\ ret' = IF raises
                  THEN [Raised(caller, r, MethodKey(method), "HTTPStatusError")
                            EXCEPT !.kwargs = kwargs]
                  ELSE [op |-> caller, recv |-> r, arg |-> MethodKey(method),
                        result |-> "response", new |-> 0, exc |-> "",
                        kwargs |-> kwargs]
        /\ UNCHANGED <<facade, builders, lists, call, transports, scope, flow,
                       log>>

\* a request that consumes the builder's last segment while it renders the URL
Sync_request_body_Consume(caller, r, method, kwargs, status_code, raises) ==
    LET self == builders[r]
        url == Sync_get_url(self)
        response == Response(status_code, method, url, request_kwargs(kwargs))
    IN  /\ self.cls = "SyncDynamicClient"
        /\ raises \in raise_for_status(status_code)
        /\ io' = <<Event("request", response)>> \o
                 (IF raises THEN <<Event("raise", response)>>
                  ELSE <<Event("loggix", response), Event("return", response)>>)
        /\ ret' = IF raises
                  THEN [Raised(caller, r, MethodKey(method), "HTTPStatusError")
                            EXCEPT !.kwargs = kwargs]
                  ELSE [op |-> caller, recv |-> r, arg |-> MethodKey(method),
                        result |-> "response", new |-> 0, exc |-> "",
                        kwargs |-> kwargs]
        /\ lists' = [lists EXCEPT ![self.segments] = SubSeq(@, 1, Len(@) - 1)]
        /\ UNCHANGED <<facade, builders, call, transports, scope, flow, log>>

\* the body of request.  caller is the method the program called (request
\* itself, or the verb method that calls it) and kwargs what it was given;
\* ret keeps both.
Sync_request_body(caller, r, method, kwargs, status_code, raises) ==
    LET self == builders[r]
        url == Sync_get_url(self)
        response == Response(status_code, method, url, request_kwargs(kwargs))
    IN  /\ self.cls = "SyncDynamicClient"
        /\ raises \in raise_for_status(status_code)
        /\ io' = <<Event("request", response)>> \o
                 (IF raises THEN <<Event("raise", response)>>
                  ELSE <<Event("loggix", response), Event("return", response)>>)
        /\ ret' = IF raises
                  THEN [Raised(caller, r, MethodKey(method), "HTTPStatusError")
                            EXCEPT !.kwargs = kwargs]
                  ELSE [op |-> caller, recv |-> r, arg |-> MethodKey(method),
                        result |-> "response", new |-> 0, exc |-> "",
                        kwargs |-> kwargs]
        /\ UNCHANGED <<facade, builders, lists, call, transports, scope, flow,
                       log>>

Async_request_body(caller, r, method, kwargs, status_code, raises) ==
    LET self == builders[r]
        url == Async_get_url(self)
        response == Response(status_code, method, url, request_kwargs(kwargs))
    IN  /\ self.cls = "AsyncDynamicClient"
        /\ raises \in raise_for_status(status_code)
        /\ io' = <<Event("request", response)>> \o
                 (IF raises THEN <<Event("raise", response)>>
                  ELSE <<Event("loggix", response), Event("return", response)>>)
        /\ ret' = IF raises
                  THEN [Raised(caller, r, MethodKey(method), "HTTPStatusError")
                            EXCEPT !.kwargs = kwargs]
                  ELSE [op |-> caller, recv |-> r, arg |-> MethodKey(method),
                        result |-> "response", new |-> 0, exc |-> "",
                        kwargs |-> kwargs]
        /\ UNCHANGED <<facade, builders, lists, call, transports, scope, flow,
                       log>>

Sync_request(r, method, kwargs, status_code, raises) ==
    Sync_request_body("request", r, method, kwargs, status_code, raises)

Async_request(r, method, kwargs, status_code, raises) ==
    Async_request_body("request", r, method, kwargs, status_code, raises)

\* the verb methods: return self.request(HTTPMethod.<VERB>, **kwargs)
Sync_get(r, kwargs, status_code, raises) ==
    Sync_request_body("get", r, "GET", kwargs, status_code, raises)

Sync_post(r, kwargs, status_code, raises) ==
    Sync_request_body("post", r, "POST", kwargs, status_code, raises)

Sync_put(r, kwargs, status_code, raises) ==
    Sync_request_body("put", r, "PUT", kwargs, status_code, raises)

Sync_delete(r, kwargs, status_code, raises) ==
    Sync_request_body("delete", r, "DELETE", kwargs, status_code, raises)

Sync_patch(r, kwargs, status_code, raises) ==
    Sync_request_body("patch", r, "PATCH", kwargs, status_code, raises)

Sync_head(r, kwargs, status_code, raises) ==
    Sync_request_body("head", r, "HEAD", kwargs, status_code, raises)

Sync_options(r, kwargs, status_code, raises) ==
    Sync_request_body("options", r, "OPTIONS", kwargs, status_code, raises)

Sync_trace(r, kwargs, status_code, raises) ==
    Sync_request_body("trace", r, "TRACE", kwargs, status_code, raises)

Sync_connect(r, kwargs, status_code, raises) ==
    Sync_request_body("connect", r, "CONNECT", kwargs, status_code, raises)

Async_get(r, kwargs, status_code, raises) ==
    Async_request_body("get", r, "GET", kwargs, status_code, raises)

Async_post(r, kwargs, status_code, raises) ==
    Async_request_body("post", r, "POST", kwargs, status_code, raises)

Async_put(r, kwargs, status_code, raises) ==
    Async_request_body("put", r, "PUT", kwargs, status_code, raises)

Async_delete(r, kwargs, status_code, raises) ==
    Async_request_body("delete", r, "DELETE", kwargs, status_code, raises)

Async_patch(r, kwargs, status_code, raises) ==
    Async_request_body("patch", r, "PATCH", kwargs, status_code, raises)

Async_head(r, kwargs, status_code, raises) ==
    Async_request_body("head", r, "HEAD", kwargs, status_code, raises)

Async_options(r, kwargs, status_code, raises) ==
    Async_request_body("options", r, "OPTIONS", kwargs, status_code, raises)

Async_trace(r, kwargs, status_code, raises) ==
    Async_request_body("trace", r, "TRACE", kwargs, status_code, raises)

Async_connect(r, kwargs, status_code, raises) ==
    Async_request_body("connect", r, "CONNECT", kwargs, status_code, raises)

(***************************************************************************)
(* Any number of tasks, each holding any of the builders made so far: an   *)
(* operation is synchronous and never suspends, so an interleaving is a    *)
(* sequence of operations, each on any builder that exists.                *)
(***************************************************************************)
AttrNames == {S_user_id, S_posts, S_get}

LiteralKeys == {StrKey(S_john), IntKey(123)}

KeyFormats == {CAMEL}

WithFormats == {SNAKE}

Keys == LiteralKeys \cup {FormatKey(f) : f \in KeyFormats}

Room == Len(builders) < MaxBuilders

Next ==
    \/ \E name \in AttrNames : Room /\ SyncClient_getattr(name)
    \/ \E name \in AttrNames : Room /\ AsyncClient_getattr(name)
    \/ Room /\ DynamicClient_init
    \/ \E r \in 1..Len(builders), name \in AttrNames :
            Room /\ Sync_getattr(r, name)
    \/ \E r \in 1..Len(builders), key \in Keys : Room /\ Sync_getitem(r, key)
    \/ \E r \in 1..Len(builders), format \in WithFormats :
            Room /\ Sync_with_format(r, format)
    \/ \E r \in 1..Len(builders), name \in AttrNames :
            Room /\ Async_getattr(r, name)
    \/ \E r \in 1..Len(builders), key \in Keys : Room /\ Async_getitem(r, key)
    \/ \E r \in 1..Len(builders), format \in WithFormats :
            Room /\ Async_with_format(r, format)

Spec == Init /\ [][Next]_vars

(***************************************************************************)
(* One chained expression: every operation applies to the builder the      *)
(* operation before it returned, and the expression ends with requests on  *)
(* the last builder.                                                       *)
(***************************************************************************)
InitChain ==
    /\ facade \in Facades(BaseUrls, {DEFAULT}, {NoKnownPaths})
    /\ builders = <<>>
    /\ lists = <<>>
    /\ ret = NoRet
    /\ io = NoIo
    /\ call = NoCall
    /\ transports = <<OpenTransport>>
    /\ scope = NoScope
    /\ flow = NoFlow
    /\ log = NoLog

ChainNames == {S_users, S_posts}

Methods == {"GET"}

StatusCodes == {200, 302, 404, 500}

Last == Len(builders)

Building == Last >= 1 /\ Last < MaxChain /\ ret.op # "request"

NextChain ==
    \/ \E name \in ChainNames : Last = 0 /\ SyncClient_getattr(name)
    \/ \E name \in ChainNames : Last = 0 /\ AsyncClient_getattr(name)
    \/ \E name \in ChainNames : Building /\ Sync_getattr(Last, name)
    \/ \E key \in LiteralKeys : Building /\ Sync_getitem(Last, key)
    \/ \E format \in WithFormats : Building /\ Sync_with_format(Last, format)
    \/ \E name \in ChainNames : Building /\ Async_getattr(Last, name)
    \/ \E key \in LiteralKeys : Building /\ Async_getitem(Last, key)
    \/ \E format \in WithFormats : Building /\ Async_with_format(Last, format)
    \/ \E method \in Methods, status_code \in StatusCodes, raises \in BOOLEAN :
            Last >= 1 /\ Sync_request(Last, method, NoKwargs, status_code, raises)
    \/ \E method \in Methods, status_code \in StatusCodes, raises \in BOOLEAN :
            Last >= 1 /\ Async_request(Last, method, NoKwargs, status_code, raises)

SpecChain == InitChain /\ [][NextChain]_vars

(***************************************************************************)
(* One builder used for several requests: the chain is built, then get,    *)
(* post and put are called on its last builder one after the other, each   *)
(* answered with any status, the program going on after a status error.    *)
(***************************************************************************)
MaxReuse == 3

ReuseStatusCodes == {200, 404}

RequestOps == {"request", "get", "post", "put", "delete", "patch", "head",
               "options", "trace", "connect"}

Assembling == Last >= 1 /\ Last < MaxReuse /\ ret.op \notin RequestOps

NextReuse ==
    \/ \E name \in ChainNames : Last = 0 /\ SyncClient_getattr(name)
    \/ \E name \in ChainNames : Last = 0 /\ AsyncClient_getattr(name)
    \/ \E name \in ChainNames : Assembling /\ Sync_getattr(Last, name)
    \/ \E key \in LiteralKeys : Assembling /\ Sync_getitem(Last, key)
    \/ \E format \in WithFormats : Assembling /\ Sync_with_format(Last, format)
    \/ \E name \in ChainNames : Assembling /\ Async_getattr(Last, name)
    \/ \E key \in LiteralKeys : Assembling /\ Async_getitem(Last, key)
    \/ \E format \in WithFormats : Assembling /\ Async_with_format(Last, format)
    \/ \E status_code \in ReuseStatusCodes, raises \in BOOLEAN :
            /\ Last >= 1 /\ ret.op \notin RequestOps
            /\ Sync_get(Last, NoKwargs, status_code, raises)
    \/ \E status_code \in ReuseStatusCodes, raises \in BOOLEAN :
            ret.op = "get" /\ Sync_post(Last, NoKwargs, status_code, raises)
    \/ \E status_code \in ReuseStatusCodes, raises \in BOOLEAN :
            ret.op = "post" /\ Sync_put(Last, NoKwargs, status_code, raises)
    \/ \E status_code \in ReuseStatusCodes, raises \in BOOLEAN :
            /\ Last >= 1 /\ ret.op \notin RequestOps
            /\ Async_get(Last, NoKwargs, status_code, raises)
    \/ \E status_code \in ReuseStatusCodes, raises \in BOOLEAN :
            ret.op = "get" /\ Async_post(Last, NoKwargs, status_code, raises)
    \/ \E status_code \in ReuseStatusCodes, raises \in BOOLEAN :
            ret.op = "post" /\ Async_put(Last, NoKwargs, status_code, raises)

SpecReuse == InitChain /\ [][NextReuse]_vars

(***************************************************************************)
(* The verb methods, called on the builder a facade attribute access made, *)
(* with every dict of keyword arguments over two names and five values.    *)
(***************************************************************************)
KwargNames == {"params", "json"}

KwargValues == {None, IntKey(0), StrKey(<<>>), EmptyDict, StrKey(S_john)}

Kwargs == UNION {[names -> KwargValues] : names \in SUBSET KwargNames}

VerbStatusCodes == {200, 404}

\* the expression is facade.posts.<verb>(**kwargs): the verb is called on the
\* builder the attribute access returned
Called == Last >= 1 /\ ret.op = "getattr"

NextVerbs ==
    \/ Last = 0 /\ SyncClient_getattr(S_posts)
    \/ Last = 0 /\ AsyncClient_getattr(S_posts)
    \/ \E kwargs \in Kwargs, status_code \in VerbStatusCodes, raises \in BOOLEAN :
            Called /\ Sync_get(Last, kwargs, status_code, raises)
    \/ \E kwargs \in Kwargs, status_code \in VerbStatusCodes, raises \in BOOLEAN :
            Called /\ Sync_post(Last, kwargs, status_code, raises)
    \/ \E kwargs \in Kwargs, status_code \in VerbStatusCodes, raises \in BOOLEAN :
            Called /\ Sync_put(Last, kwargs, status_code, raises)
    \/ \E kwargs \in Kwargs, status_code \in VerbStatusCodes, raises \in BOOLEAN :
            Called /\ Sync_delete(Last, kwargs, status_code, raises)
    \/ \E kwargs \in Kwargs, status_code \in VerbStatusCodes, raises \in BOOLEAN :
            Called /\ Sync_patch(Last, kwargs, status_code, raises)
    \/ \E kwargs \in Kwargs, status_code \in VerbStatusCodes, raises \in BOOLEAN :
            Called /\ Sync_head(Last, kwargs, status_code, raises)
    \/ \E kwargs \in Kwargs, status_code \in VerbStatusCodes, raises \in BOOLEAN :
            Called /\ Sync_options(Last, kwargs, status_code, raises)
    \/ \E kwargs \in Kwargs, status_code \in VerbStatusCodes, raises \in BOOLEAN :
            Called /\ Sync_trace(Last, kwargs, status_code, raises)
    \/ \E kwargs \in Kwargs, status_code \in VerbStatusCodes, raises \in BOOLEAN :
            Called /\ Sync_connect(Last, kwargs, status_code, raises)
    \/ \E kwargs \in Kwargs, status_code \in VerbStatusCodes, raises \in BOOLEAN :
            Called /\ Async_get(Last, kwargs, status_code, raises)
    \/ \E kwargs \in Kwargs, status_code \in VerbStatusCodes, raises \in BOOLEAN :
            Called /\ Async_post(Last, kwargs, status_code, raises)
    \/ \E kwargs \in Kwargs, status_code \in VerbStatusCodes, raises \in BOOLEAN :
            Called /\ Async_put(Last, kwargs, status_code, raises)
    \/ \E kwargs \in Kwargs, status_code \in VerbStatusCodes, raises \in BOOLEAN :
            Called /\ Async_delete(Last, kwargs, status_code, raises)
    \/ \E kwargs \in Kwargs, status_code \in VerbStatusCodes, raises \in BOOLEAN :
            Called /\ Async_patch(Last, kwargs, status_code, raises)
    \/ \E kwargs \in Kwargs, status_code \in VerbStatusCodes, raises \in BOOLEAN :
            Called /\ Async_head(Last, kwargs, status_code, raises)
    \/ \E kwargs \in Kwargs, status_code \in VerbStatusCodes, raises \in BOOLEAN :
            Called /\ Async_options(Last, kwargs, status_code, raises)
    \/ \E kwargs \in Kwargs, status_code \in VerbStatusCodes, raises \in BOOLEAN :
            Called /\ Async_trace(Last, kwargs, status_code, raises)
    \/ \E kwargs \in Kwargs, status_code \in VerbStatusCodes, raises \in BOOLEAN :
            Called /\ Async_connect(Last, kwargs, status_code, raises)

SpecVerbs == InitChain /\ [][NextVerbs]_vars

(***************************************************************************)
(* ClientFactory.create.  The facade it returns is the one the program     *)
(* goes on with; its __post_init__ makes a transport of its own.           *)
(***************************************************************************)
ClientType_SYNC == "sync"

ClientType_ASYNC == "async"

ClientType_DEFAULT == ClientType_SYNC

\* transports the program may make
MaxTransports == 2

\* the arguments create was called with, kept in ret
CreateArgs(base_url, client_type, segment_format, known_paths) ==
    [base_url |-> base_url, client_type |-> client_type,
     segment_format |-> segment_format, known_paths |-> known_paths]

\* a create that rejects a client_type it does not know
ClientFactory_create_Strict(base_url, client_type, segment_format, known_paths) ==
    /\ Len(transports) < MaxTransports
    /\ IF client_type \in {ClientType_SYNC, ClientType_ASYNC}
       THEN /\ facade' =
                [cls |-> IF client_type = ClientType_ASYNC THEN "AsyncClient"
                         ELSE "SyncClient",
                 base_url |-> base_url, segment_format |-> segment_format,
                 known_paths |-> IF known_paths.kind = "none" THEN NoKnownPaths
                                 ELSE known_paths.dict,
                 _client |-> Len(transports) + 1]
            /\ transports' = Append(transports, OpenTransport)
            /\ ret' = [Done("create") EXCEPT
                         !.result = "facade",
                         !.kwargs = CreateArgs(base_url, client_type,
                                               segment_format, known_paths)]
       ELSE /\ ret' = [Raised("create", 0, None, "ValueError") EXCEPT
                         !.kwargs = CreateArgs(base_url, client_type,
                                               segment_format, known_paths)]
            /\ UNCHANGED <<facade, transports>>
    /\ UNCHANGED <<builders, lists, io, call, scope, flow, log>>

ClientFactory_create(base_url, client_type, segment_format, known_paths) ==
    /\ Len(transports) < MaxTransports
    /\ facade' =
        [cls |-> CASE client_type = ClientType_SYNC -> "SyncClient"
                   [] client_type = ClientType_ASYNC -> "AsyncClient"
                   [] OTHER -> "SyncClient",
         base_url |-> base_url, segment_format |-> segment_format,
         known_paths |-> IF known_paths.kind = "none" THEN NoKnownPaths
                         ELSE known_paths.dict,
         _client |-> Len(transports) + 1]
    /\ transports' = Append(transports, OpenTransport)
    /\ ret' = [Done("create") EXCEPT
                 !.result = "facade",
                 !.kwargs = CreateArgs(base_url, client_type, segment_format,
                                       known_paths)]
    /\ UNCHANGED <<builders, lists, io, call, scope, flow, log>>

ClientTypes == {ClientType_SYNC, ClientType_ASYNC, ClientType_DEFAULT, "unknown"}

\* the known_paths argument: None or a dict
OptionalTables ==
    {[kind |-> "none", dict |-> <<>>]} \cup
    {[kind |-> "dict", dict |-> table] : table \in KnownPathTables}

InitFactory ==
    /\ facade \in Facades({BaseUrl}, {DEFAULT}, {NoKnownPaths})
    /\ builders = <<>>
    /\ lists = <<>>
    /\ ret = NoRet
    /\ io = NoIo
    /\ call = NoCall
    /\ transports = <<OpenTransport>>
    /\ scope = NoScope
    /\ flow = NoFlow
    /\ log = NoLog

NextFactory ==
    \E base_url \in BaseUrls, client_type \in ClientTypes,
       segment_format \in AnyFormat, known_paths \in OptionalTables :
        ClientFactory_create(base_url, client_type, segment_format, known_paths)

SpecFactory == InitFactory /\ [][NextFactory]_vars

(***************************************************************************)
(* The two variants side by side.  The program builds a path on a          *)
(* SyncClient, makes an AsyncClient from the same arguments and applies    *)
(* the same operations to it: each operation first on the last sync        *)
(* builder, then on the last async builder.                                *)
(***************************************************************************)
\* builders of one variant in a pair of chains
MaxPair == 3

PairNames == {S_users, S_close, S_get}

PairKeys == {StrKey(S_john), IntKey(123), FormatKey(CAMEL)}

SyncMade == {i \in 1..Len(builders) : builders[i].cls = "SyncDynamicClient"}

AsyncMade == {i \in 1..Len(builders) : builders[i].cls = "AsyncDynamicClient"}

\* the k-th builder of a chain, and the last one (0: none yet)
Nth(chain, k) == CHOOSE i \in chain : Cardinality({j \in chain : j <= i}) = k

LastOf(chain) == IF chain = {} THEN 0 ELSE Nth(chain, Cardinality(chain))

SyncLast == LastOf(SyncMade)

AsyncLast == LastOf(AsyncMade)

Level == Cardinality(SyncMade) = Cardinality(AsyncMade)

\* the sync side got something that is no builder and the async side has
\* not yet been through the same operation
SyncPending == ret.recv \in SyncMade /\ ret.result \in {"attribute", "raise"}

SyncTurn ==
    /\ Level /\ ~SyncPending
    /\ Cardinality(SyncMade) \in 1..(MaxPair - 1)

PairStart == builders = <<>> /\ facade.cls = "SyncClient"

\* the operation the async side has to go through next is op with arg
ToAsync(op, arg) ==
    \/ /\ Cardinality(SyncMade) > Cardinality(AsyncMade)
       /\ facade.cls = "AsyncClient"
       /\ builders[Nth(SyncMade, Cardinality(AsyncMade) + 1)].via = Via(op, arg)
    \/ Level /\ SyncPending /\ ret.op = op /\ ret.arg = arg

InitPair ==
    /\ facade \in {f \in Facades({BaseUrl}, {DEFAULT, FLAT}, KnownPathTables) :
                     f.cls = "SyncClient"}
    /\ builders = <<>>
    /\ lists = <<>>
    /\ ret = NoRet
    /\ io = NoIo
    /\ call = NoCall
    /\ transports = <<OpenTransport>>
    /\ scope = NoScope
    /\ flow = NoFlow
    /\ log = NoLog

NextPair ==
    \/ \E name \in PairNames : PairStart /\ SyncClient_getattr(name)
    \/ (PairStart \/ ToAsync("init", None)) /\ DynamicClient_init
    \/ /\ Cardinality(SyncMade) = 1 /\ AsyncMade = {}
       /\ facade.cls = "SyncClient"
       /\ ClientFactory_create(facade.base_url, ClientType_ASYNC,
                               facade.segment_format,
                               [kind |-> "dict", dict |-> facade.known_paths])
    \/ \E name \in PairNames : SyncTurn /\ Sync_getattr(SyncLast, name)
    \/ \E key \in PairKeys : SyncTurn /\ Sync_getitem(SyncLast, key)
    \/ \E format \in WithFormats : SyncTurn /\ Sync_with_format(SyncLast, format)
    \/ \E name \in PairNames :
            /\ AsyncMade = {} /\ ToAsync("getattr", StrKey(name))
            /\ AsyncClient_getattr(name)
    \/ \E name \in PairNames :
            /\ AsyncMade # {} /\ ToAsync("getattr", StrKey(name))
            /\ Async_getattr(AsyncLast, name)
    \/ \E key \in PairKeys :
            /\ AsyncMade # {} /\ ToAsync("getitem", key)
            /\ Async_getitem(AsyncLast, key)
    \/ \E format \in WithFormats :
            /\ AsyncMade # {} /\ ToAsync("with_format", FormatKey(format))
            /\ Async_with_format(AsyncLast, format)

SpecPair == InitPair /\ [][NextPair]_vars

(***************************************************************************)
(* SegmentFormatter(segment_format, known_paths).transform(segment) on its *)
(* own: every name over a small alphabet, every format, a few tables.      *)
(***************************************************************************)
MaxNameLen == 3

NameChars == {"a", "B", "_", "-"}

RECURSIVE NamesUpTo(_)
NamesUpTo(n) ==
    IF n = 0 THEN {<<>>}
    ELSE NamesUpTo(n - 1) \cup
         {Append(s, c) : s \in NamesUpTo(n - 1), c \in NameChars}

S_a_B == <<"a","_","B">>

S_override == <<"X","_","y","-","Z">>

\* no table; a table whose key is a raw name; a table whose keys are the
\* kebab and the camel form of that name
FormatterTables ==
    { NoKnownPaths,
      [k \in {S_a_B} |-> S_override],
      [k \in {<<"a","-","b">>, <<"a","B">>} |-> S_override] }

InitFormatter ==
    /\ facade \in Facades({BaseUrl}, {DEFAULT}, {NoKnownPaths})
    /\ builders = <<>>
    /\ lists = <<>>
    /\ ret = NoRet
    /\ io = NoIo
    /\ call \in [segment_format : AnyFormat, known_paths : FormatterTables,
                 segment : NamesUpTo(MaxNameLen), result : {<<>>},
                 done : {FALSE}]
    /\ transports = <<OpenTransport>>
    /\ scope = NoScope
    /\ flow = NoFlow
    /\ log = NoLog

SegmentFormatter_transform ==
    /\ ~call.done
    /\ call' = [call EXCEPT
                  !.result = transform(call.segment_format, call.known_paths,
                                       call.segment),
                  !.done = TRUE]
    /\ UNCHANGED <<facade, builders, lists, ret, io, transports, scope, flow,
                   log>>

NextFormatter == SegmentFormatter_transform

SpecFormatter == InitFormatter /\ [][NextFormatter]_vars

(***************************************************************************)
(* The facade and its transport: close / aclose and the with statement.    *)
(* `await self._client.aclose()` suspends the caller until the transport   *)
(* has closed; the caller sees it as one step.                             *)
(***************************************************************************)
\* explicit close calls the program makes
MaxCloses == 3

\* close() / aclose() of the transport: closing a closed transport is allowed
Transport_close(transport) ==
    [transport EXCEPT !.is_closed = TRUE, !.close_calls = @ + 1]

SyncClient_close ==
    /\ facade.cls = "SyncClient"
    /\ transports[facade._client].close_calls < MaxCloses
    /\ transports' = [transports EXCEPT ![facade._client] = Transport_close(@)]
    /\ ret' = Done("close")
    /\ UNCHANGED <<facade, builders, lists, io, call, scope, flow, log>>

\* `with facade as client:` calls __enter__, which returns self
SyncClient_enter ==
    /\ facade.cls = "SyncClient"
    /\ scope.pc = "before"
    /\ scope' = [scope EXCEPT !.pc = "body"]
    /\ ret' = [Done("enter") EXCEPT !.result = "self"]
    /\ UNCHANGED <<facade, builders, lists, io, call, transports, flow, log>>

\* an __exit__ that returns without closing
SyncClient_exit_NoClose(raised) ==
    /\ facade.cls = "SyncClient"
    /\ scope.pc = "body"
    /\ scope' = [pc |-> "after", raised |-> raised, propagated |-> raised]
    /\ ret' = IF raised THEN Raised("exit", 0, None, "BodyError")
              ELSE Done("exit")
    /\ UNCHANGED <<facade, builders, lists, io, call, transports, flow, log>>

\* the body of the with statement ends, normally or by raising: __exit__ is
\* called, closes, and returns None, so an exception of the body propagates
SyncClient_exit(raised) ==
    /\ facade.cls = "SyncClient"
    /\ scope.pc = "body"
    /\ transports' = [transports EXCEPT ![facade._client] = Transport_close(@)]
    /\ scope' = [pc |-> "after", raised |-> raised, propagated |-> raised]
    /\ ret' = IF raised THEN Raised("exit", 0, None, "BodyError")
              ELSE Done("exit")
    /\ UNCHANGED <<facade, builders, lists, io, call, flow, log>>

AsyncClient_aclose ==
    /\ facade.cls = "AsyncClient"
    /\ transports[facade._client].close_calls < MaxCloses
    /\ transports' = [transports EXCEPT ![facade._client] = Transport_close(@)]
    /\ ret' = Done("close")
    /\ UNCHANGED <<facade, builders, lists, io, call, scope, flow, log>>

AsyncClient_aenter ==
    /\ facade.cls = "AsyncClient"
    /\ scope.pc = "before"
    /\ scope' = [scope EXCEPT !.pc = "body"]
    /\ ret' = [Done("enter") EXCEPT !.result = "self"]
    /\ UNCHANGED <<facade, builders, lists, io, call, transports, flow, log>>

AsyncClient_aexit(raised) ==
    /\ facade.cls = "AsyncClient"
    /\ scope.pc = "body"
    /\ transports' = [transports EXCEPT ![facade._client] = Transport_close(@)]
    /\ scope' = [pc |-> "after", raised |-> raised, propagated |-> raised]
    /\ ret' = IF raised THEN Raised("exit", 0, None, "BodyError")
              ELSE Done("exit")
    /\ UNCHANGED <<facade, builders, lists, io, call, flow, log>>

NextLife ==
    \/ SyncClient_close
    \/ SyncClient_enter
    \/ \E raised \in BOOLEAN : SyncClient_exit(raised)
    \/ AsyncClient_aclose
    \/ AsyncClient_aenter
    \/ \E raised \in BOOLEAN : AsyncClient_aexit(raised)

SpecLife == Init /\ [][NextLife]_vars

(***************************************************************************)
(* auth.BearerAuth, auth.ApiKeyAuth and auth.MultiAuth.  The headers of a  *)
(* request are a set of name/value pairs, the name in lower case: the      *)
(* transport library's headers compare names without regard to case, and   *)
(* an assignment replaces the value a name already has.                    *)
(*   flow.pc            "created": auth_flow(request) was called and the   *)
(*                      generator has not run; "yielded": it is suspended  *)
(*                      at its yield; "done": it has returned              *)
(*   flow.auth_methods  self.auth_methods                                  *)
(*   flow.done          number of methods whose flow has been made: the    *)
(*                      method the for statement is at                     *)
(*   flow.at            number of yields the flow of that method has made  *)
(*   flow.headers       request.headers, of the one request object that    *)
(*                      all the methods write to                           *)
(*   flow.yields        the headers of the request at each yield, that is  *)
(*                      each time it is handed over for sending            *)
(*   flow.sent          the status codes of the responses sent in          *)
(*   flow.inner_yields  the requests the methods' own flows yielded, each  *)
(*                      with the index of its method                       *)
(*   flow.inner_got     what each method's flow was resumed with after a   *)
(*                      yield: a response, or None when resumed by next    *)
(***************************************************************************)
S_Authorization == <<"A","u","t","h","o","r","i","z","a","t","i","o","n">>

S_X_API_Key == <<"X","-","A","P","I","-","K","e","y">>

Header(name, value) == [name |-> lower(name), value |-> value]

\* an assignment that keeps the value a name already has
Headers_setitem_KeepFirst(headers, key, value) ==
    IF \E h \in headers : h.name = lower(key)
    THEN headers
    ELSE headers \cup {Header(key, value)}

\* request.headers[key] = value
Headers_setitem(headers, key, value) ==
    {h \in headers : h.name # lower(key)} \cup {Header(key, value)}

BearerAuth(token, auth_header) ==
    [cls |-> "BearerAuth", token |-> token, auth_header |-> auth_header]

BearerAuth_build_auth_header(self) ==
    <<"B","e","a","r","e","r"," ">> \o self.token

\* the headers of the request BearerAuth.auth_flow yields
BearerAuth_auth_flow(self, headers) ==
    Headers_setitem(headers, self.auth_header,
                    BearerAuth_build_auth_header(self))

ApiKeyAuth(api_key, header_name) ==
    [cls |-> "ApiKeyAuth", api_key |-> api_key, header_name |-> header_name]

\* the headers of the request ApiKeyAuth.auth_flow yields
ApiKeyAuth_auth_flow(self, headers) ==
    Headers_setitem(headers, self.header_name, self.api_key)

\* auth.auth_flow(current_request) run to its one yield
auth_flow(auth, headers) ==
    IF auth.cls = "BearerAuth"
    THEN BearerAuth_auth_flow(auth, headers)
    ELSE ApiKeyAuth_auth_flow(auth, headers)

\* the name and the value a method writes
CredentialOf(auth) ==
    IF auth.cls = "BearerAuth"
    THEN Header(auth.auth_header, BearerAuth_build_auth_header(auth))
    ELSE Header(auth.header_name, auth.api_key)

\* httpx.DigestAuth(username, password): a method of the transport library
\* whose flow has two steps
DigestAuth(username) == [cls |-> "DigestAuth", username |-> username]

Yield(headers) == [kind |-> "yield", headers |-> headers]

\* the generator auth.auth_flow(request) of one method, resumed after `at`
\* yields with value (None on next, the response on send).  BearerAuth and
\* ApiKeyAuth write their header, yield once and return.  DigestAuth yields
\* the request as it is, returns unless the response is a 401 (which here
\* always carries a Digest challenge), else writes its Authorization header
\* and yields the request a second time; reading the status of None raises.
auth_flow_resume(auth, at, headers, value) ==
    IF auth.cls = "DigestAuth"
    THEN CASE at = 0 -> Yield(headers)
           [] at = 1 /\ value.kind = "none" ->
                    [kind |-> "raise", headers |-> headers]
           [] at = 1 /\ value = IntKey(401) ->
                    Yield(Headers_setitem(headers, S_Authorization,
                            <<"D","i","g","e","s","t"," ">> \o auth.username))
           [] OTHER -> [kind |-> "stop", headers |-> headers]
    ELSE IF at = 0
         THEN Yield(auth_flow(auth, headers))
         ELSE [kind |-> "stop", headers |-> headers]

RECURSIVE MultiAuth_auth_flow_for(_)

\* the while statement at current_request = next(auth_flow): the flow of
\* method f.done is run to its next yield, and MultiAuth yields what it
\* yielded; StopIteration ends the loop and the for statement goes on
MultiAuth_auth_flow_while(f) ==
    LET auth == f.auth_methods[f.done]
        resumed == auth_flow_resume(auth, f.at, f.headers, None)
        g == IF f.at = 0 THEN f
             ELSE [f EXCEPT !.inner_got =
                        Append(@, [auth |-> f.done, response |-> None])]
    IN  CASE resumed.kind = "yield" ->
                [g EXCEPT !.pc = "yielded",
                          !.at = @ + 1,
                          !.headers = resumed.headers,
                          !.inner_yields = Append(@, [auth |-> f.done,
                                               headers |-> resumed.headers]),
                          !.yields = Append(@, resumed.headers)]
          [] resumed.kind = "stop" -> MultiAuth_auth_flow_for(g)
          [] OTHER -> [g EXCEPT !.pc = "raised"]

\* the for statement: the flow of the next method is made and the while
\* statement entered; after the last method the generator returns
MultiAuth_auth_flow_for(f) ==
    IF f.done < Len(f.auth_methods)
    THEN MultiAuth_auth_flow_while([f EXCEPT !.done = @ + 1, !.at = 0])
    ELSE [f EXCEPT !.pc = "done"]

\* MultiAuth.auth_flow resumed at response = yield current_request:
\* auth_flow.send(response) runs the flow of the method to its next yield,
\* whose request is not assigned, and the while statement goes round;
\* StopIteration ends the loop
MultiAuth_auth_flow_resume(f, response) ==
    LET auth == f.auth_methods[f.done]
        resumed == auth_flow_resume(auth, f.at, f.headers, response)
        g == [f EXCEPT !.sent = Append(@, response.n),
                       !.inner_got = Append(@, [auth |-> f.done,
                                                response |-> response])]
    IN  CASE resumed.kind = "yield" ->
                MultiAuth_auth_flow_while(
                    [g EXCEPT !.at = @ + 1,
                              !.headers = resumed.headers,
                              !.inner_yields = Append(@, [auth |-> f.done,
                                               headers |-> resumed.headers])])
          [] resumed.kind = "stop" -> MultiAuth_auth_flow_for(g)
          [] OTHER -> [g EXCEPT !.pc = "raised"]

FlowRet(op, f) ==
    CASE f.pc = "done" -> Raised(op, 0, None, "StopIteration")
      [] f.pc = "raised" -> Raised(op, 0, None, "AttributeError")
      [] OTHER -> [Done(op) EXCEPT !.result = "request"]

\* next(flow) on the generator MultiAuth.auth_flow(request) returned
MultiAuth_auth_flow_next ==
    /\ flow.pc = "created"
    /\ flow' = MultiAuth_auth_flow_for(flow)
    /\ ret' = FlowRet("next", flow')
    /\ UNCHANGED <<facade, builders, lists, io, call, transports, scope, log>>

\* flow.send(response)
MultiAuth_auth_flow_send(status_code) ==
    /\ flow.pc = "yielded"
    /\ flow' = MultiAuth_auth_flow_resume(flow, IntKey(status_code))
    /\ ret' = FlowRet("send", flow')
    /\ UNCHANGED <<facade, builders, lists, io, call, transports, scope, log>>

\* methods in one MultiAuth
MaxMethods == 3

S_t == <<"t">>

S_u == <<"u">>

S_k == <<"k">>

AuthMethods ==
    { BearerAuth(S_t, S_Authorization), BearerAuth(S_u, S_Authorization),
      ApiKeyAuth(S_k, S_X_API_Key), ApiKeyAuth(S_k, lower(S_Authorization)) }

AuthMethodLists ==
    UNION {[1..k -> AuthMethods] : k \in 0..MaxMethods}

\* httpx.Request("GET", "http://x")
RequestHeaders == {Header(<<"H","o","s","t">>, <<"x">>)}

AuthStatusCodes == {200, 401}

InitAuth ==
    /\ facade \in Facades({BaseUrl}, {DEFAULT}, {NoKnownPaths})
    /\ facade.cls = "SyncClient"
    /\ builders = <<>>
    /\ lists = <<>>
    /\ ret = NoRet
    /\ io = NoIo
    /\ call = NoCall
    /\ transports = <<OpenTransport>>
    /\ scope = NoScope
    /\ \E auth_methods \in AuthMethodLists :
            flow = [NoFlow EXCEPT !.pc = "created",
                                  !.auth_methods = auth_methods,
                                  !.headers = RequestHeaders]
    /\ log = NoLog

NextAuth ==
    \/ MultiAuth_auth_flow_next
    \/ \E status_code \in AuthStatusCodes : MultiAuth_auth_flow_send(status_code)

SpecAuth == InitAuth /\ [][NextAuth]_vars

\* a MultiAuth that may wrap the transport library's two-step method
WrappedMethods ==
    { DigestAuth(S_u), BearerAuth(S_t, S_Authorization),
      ApiKeyAuth(S_k, S_X_API_Key) }

InitWrapped ==
    /\ facade \in Facades({BaseUrl}, {DEFAULT}, {NoKnownPaths})
    /\ facade.cls = "SyncClient"
    /\ builders = <<>>
    /\ lists = <<>>
    /\ ret = NoRet
    /\ io = NoIo
    /\ call = NoCall
    /\ transports = <<OpenTransport>>
    /\ scope = NoScope
    /\ \E auth_methods \in UNION {[1..k -> WrappedMethods] : k \in 0..MaxMethods} :
            flow = [NoFlow EXCEPT !.pc = "created",
                                  !.auth_methods = auth_methods,
                                  !.headers = RequestHeaders]
    /\ log = NoLog

SpecWrapped == InitWrapped /\ [][NextAuth]_vars

(***************************************************************************)
(* auth.create_auth.  An argument is None or a str; flow.pc "auth" is a    *)
(* MultiAuth object whose auth_flow has not been called.                   *)
(***************************************************************************)
\* bool(v) of None or a str
Truthy(v) == v.kind # "none" /\ v.s # <<>>

\* httpx.BasicAuth(username, password)
BasicAuth(username, password) ==
    [cls |-> "BasicAuth", username |-> username, password |-> password]

AuthArgs(token, api_key, username, password, auth_header, api_key_header) ==
    [token |-> token, api_key |-> api_key, username |-> username,
     password |-> password, auth_header |-> auth_header,
     api_key_header |-> api_key_header]

\* the list create_auth has built when it reaches its return statement
create_auth_methods(token, api_key, username, password, auth_header, api_key_header) ==
    (IF Truthy(token) THEN <<BearerAuth(token.s, auth_header)>> ELSE <<>>)
    \o (IF Truthy(api_key) THEN <<ApiKeyAuth(api_key.s, api_key_header)>>
        ELSE <<>>)
    \o (IF Truthy(username) /\ Truthy(password)
        THEN <<BasicAuth(username.s, password.s)>> ELSE <<>>)

\* a create_auth that returns MultiAuth(auth_methods) whatever the list holds
create_auth_AlwaysMulti(token, api_key, username, password, auth_header, api_key_header) ==
    /\ flow.pc = "none"
    /\ LET auth_methods ==
               create_auth_methods(token, api_key, username, password,
                                   auth_header, api_key_header)
           args == AuthArgs(token, api_key, username, password, auth_header,
                            api_key_header)
       IN  IF ~(\E v \in {token, api_key, username, password} : Truthy(v))
           THEN /\ ret' = [Done("create_auth") EXCEPT !.kwargs = args]
                /\ flow' = flow
           ELSE /\ ret' = [Done("create_auth") EXCEPT !.result = "MultiAuth",
                                                      !.kwargs = args]
                /\ flow' = [flow EXCEPT !.pc = "auth",
                                        !.auth_methods = auth_methods]
    /\ UNCHANGED <<facade, builders, lists, io, call, transports, scope, log>>

\* create_auth(token, api_key, username, password, auth_header,
\* api_key_header)
create_auth(token, api_key, username, password, auth_header, api_key_header) ==
    /\ flow.pc = "none"
    /\ LET auth_methods ==
               create_auth_methods(token, api_key, username, password,
                                   auth_header, api_key_header)
           args == AuthArgs(token, api_key, username, password, auth_header,
                            api_key_header)
       IN  IF ~(\E v \in {token, api_key, username, password} : Truthy(v))
           THEN /\ ret' = [Done("create_auth") EXCEPT !.kwargs = args]
                /\ flow' = flow
           ELSE IF auth_methods # <<>>
                THEN /\ ret' = [Done("create_auth") EXCEPT
                                  !.result = "MultiAuth", !.kwargs = args]
                     /\ flow' = [flow EXCEPT !.pc = "auth",
                                             !.auth_methods = auth_methods]
                ELSE /\ ret' = [Done("create_auth") EXCEPT !.kwargs = args]
                     /\ flow' = flow
    /\ UNCHANGED <<facade, builders, lists, io, call, transports, scope, log>>

\* None, the empty string and a one-character string
OptionalStrs == {None, StrKey(<<>>), StrKey(S_t)}

AuthHeaders == {S_Authorization, S_X_API_Key}

NextCreateAuth ==
    \E token \in OptionalStrs, api_key \in OptionalStrs,
       username \in OptionalStrs, password \in OptionalStrs,
       auth_header \in AuthHeaders :
        create_auth(token, api_key, username, password, auth_header,
                    S_X_API_Key)

SpecCreateAuth == Init /\ [][NextCreateAuth]_vars

(***************************************************************************)
(* httpx_logger: the content formatters and HttpResponseLogger.            *)
(*   log.pc               "ready": a logger and a response exist;          *)
(*                        "logged": log_response(response) has returned;   *)
(*                        "raised": it has raised                          *)
(*                        "selected": _get_formatter(content_type) has     *)
(*                        returned                                         *)
(*   log.max_body_length  the logger's field                               *)
(*   log.formatters       the logger's registry: the classes of the        *)
(*                        formatters, in order                             *)
(*   log.status_code, log.headers, log.content   the response; content is  *)
(*                        a sequence of bytes                              *)
(*   log.content_type     the argument of _get_formatter                   *)
(*   log.formatter        the class of the formatter it returned           *)
(*   log.log_data         the headers and the body of the record handed to *)
(*                        logger.debug; body.kind "none": no body key      *)
(***************************************************************************)
\* sub in s
contains(s, sub) ==
    \E i \in 0..(Len(s) - Len(sub)) : SubSeq(s, i + 1, i + Len(sub)) = sub

\* s.str_replace(old, new), old not empty
RECURSIVE str_replace(_, _, _)
str_replace(s, old, new) ==
    IF Len(s) < Len(old) THEN s
    ELSE IF SubSeq(s, 1, Len(old)) = old
         THEN new \o str_replace(SubSeq(s, Len(old) + 1, Len(s)), old, new)
         ELSE <<s[1]>> \o str_replace(SubSeq(s, 2, Len(s)), old, new)

\* s.strip()
strip_whitespace(s) == strip(s, " ")

\* bytes.decode("utf-8", errors="replace") over the bytes 0x61 (a), 0xC3 and
\* 0xA9: C3 A9 is one character, a C3 without its continuation byte and an
\* A9 without its lead byte each become the replacement character U+FFFD
RECURSIVE decode(_)
decode(content) ==
    IF content = <<>> THEN <<>>
    ELSE IF content[1] = "a"
         THEN <<"a">> \o decode(Tail(content))
         ELSE IF content[1] = "C3" /\ Len(content) >= 2 /\ content[2] = "A9"
              THEN <<"e'">> \o decode(Tail(Tail(content)))
              ELSE <<"U+FFFD">> \o decode(Tail(content))

S_truncated == <<".",".","."," ","[","t","r","u","n","c","a","t","e","d","]">>

S_mask == <<"*","*","*","*","*","*","*","*","*","*">>

S_content_type == <<"c","o","n","t","e","n","t","-","t","y","p","e">>

S_text_plain == <<"t","e","x","t","/","p","l","a","i","n">>

content_types(formatter) ==
    CASE formatter = "JsonFormatter" -> { <<"a","p","p","l","i","c","a","t","i","o","n","/","j","s","o","n">> }
      [] formatter = "XmlFormatter" -> { <<"a","p","p","l","i","c","a","t","i","o","n","/","x","m","l">>,
                                         <<"t","e","x","t","/","x","m","l">> }
      [] formatter = "HtmlFormatter" -> { <<"t","e","x","t","/","h","t","m","l">> }
      [] formatter = "CsvFormatter" -> { <<"t","e","x","t","/","c","s","v">> }
      [] formatter = "FormDataFormatter" -> { <<"m","u","l","t","i","p","a","r","t","/","f","o","r","m","-","d","a","t","a">> }
      [] formatter = "YamlFormatter" -> { <<"a","p","p","l","i","c","a","t","i","o","n","/","y","a","m","l">>,
                                          <<"t","e","x","t","/","y","a","m","l">> }
      [] formatter = "TextFormatter" -> { S_text_plain }
      [] formatter = "BinaryFormatter" -> { <<"a","p","p","l","i","c","a","t","i","o","n","/","o","c","t","e","t","-","s","t","r","e","a","m">> }

\* can_handle of JsonFormatter, XmlFormatter, HtmlFormatter, CsvFormatter,
\* FormDataFormatter and YamlFormatter
Structured_can_handle(self, content_type) ==
    \E ct \in content_types(self) : contains(lower(content_type), ct)

\* a can_handle that matches by substring as the other formatters do
TextFormatter_can_handle_Substring(self, content_type) ==
    \E ct \in content_types(self) : contains(lower(content_type), ct)

TextFormatter_can_handle(self, content_type) ==
    \E ct \in content_types(self) : ct = lower(strip_whitespace(content_type))

BinaryFormatter_can_handle(self, content_type) == TRUE

\* BadFormatter is the formatter of the test suite whose can_handle returns
\* True and whose format raises
can_handle(formatter, content_type) ==
    CASE formatter = "BadFormatter" -> TRUE
      [] formatter = "TextFormatter" ->
            TextFormatter_can_handle(formatter, content_type)
      [] formatter = "BinaryFormatter" ->
            BinaryFormatter_can_handle(formatter, content_type)
      [] OTHER -> Structured_can_handle(formatter, content_type)

\* the value of a byte of a response body
ByteValue(b) == CASE b = "a" -> 97 [] b = "C3" -> 195 [] b = "A9" -> 169

Base64Chars ==
    <<"A","B","C","D","E","F","G","H","I","J","K","L","M","N","O","P","Q","R","S","T","U","V","W","X","Y","Z","a","b","c","d","e","f">> \o
    <<"g","h","i","j","k","l","m","n","o","p","q","r","s","t","u","v","w","x","y","z","0","1","2","3","4","5","6","7","8","9","+","/">>

\* base64.b64encode(content).decode("utf-8")
RECURSIVE b64encode(_)
b64encode(content) ==
    LET c(n) == Base64Chars[(n % 64) + 1]
        v(i) == ByteValue(content[i])
    IN  IF content = <<>> THEN <<>>
        ELSE IF Len(content) = 1
             THEN <<c(v(1) \div 4), c((v(1) % 4) * 16), "=", "=">>
        ELSE IF Len(content) = 2
             THEN <<c(v(1) \div 4), c((v(1) % 4) * 16 + v(2) \div 16),
                    c((v(2) % 16) * 4), "=">>
        ELSE <<c(v(1) \div 4), c((v(1) % 4) * 16 + v(2) \div 16),
               c((v(2) % 16) * 4 + v(3) \div 64), c(v(3))>>
             \o b64encode(SubSeq(content, 4, Len(content)))

\* f"{content_length / 1024:.2f}KB" for a length below 100 KB
SizeKB(content_length) ==
    LET hundredths == (content_length * 100 + 512) \div 1024
    IN  StrNat(hundredths \div 100) \o <<".">>
        \o StrNat((hundredths % 100) \div 10) \o StrNat(hundredths % 10)
        \o <<"K","B">>

\* BinaryFormatter(include_content=True).format(content, max_length) of
\* bytes no longer than max_file_size: json.dumps of size, binary and
\* content with indent=2.  max_length is not used.
BinaryFormatter_format(content, max_length) ==
    <<"{","\n"," "," ","\"","s","i","z","e","\"",":"," ","\"">>
    \o SizeKB(Len(content)) \o
    <<"\"",",","\n"," "," ","\"","b","i","n","a","r","y","\"",":"," ","t","r","u","e",",","\n"," "," ","\"","c","o","n","t","e","n","t","\"",":"," ","\"">>
    \o b64encode(content) \o <<"\"","\n","}">>

\* a format that cuts a text that is exactly max_length long
TextFormatter_format_CutAtMax(content, max_length) ==
    LET text == decode(content)
    IN  IF max_length # 0 /\ Len(text) >= max_length
        THEN SubSeq(text, 1, max_length) \o S_truncated
        ELSE text

\* TextFormatter.format(content, max_length) of bytes
TextFormatter_format(content, max_length) ==
    LET text == decode(content)
    IN  IF max_length # 0 /\ Len(text) > max_length
        THEN SubSeq(text, 1, max_length) \o S_truncated
        ELSE text

\* HttpResponseLogger.sensitive_headers
sensitive_headers ==
    { <<"a","u","t","h","o","r","i","z","a","t","i","o","n">>,
      <<"c","o","o","k","i","e">>,
      <<"s","e","t","-","c","o","o","k","i","e">>,
      <<"x","-","a","p","i","-","k","e","y">>,
      <<"a","p","i","-","k","e","y">>,
      <<"a","c","c","e","s","s","-","t","o","k","e","n">>,
      <<"r","e","f","r","e","s","h","-","t","o","k","e","n">> }

\* HttpResponseLogger.formatters, as the default factory makes it
formatters ==
    << "JsonFormatter", "XmlFormatter", "HtmlFormatter", "CsvFormatter",
       "FormDataFormatter", "YamlFormatter", "TextFormatter",
       "BinaryFormatter" >>

\* HttpResponseLogger.debug_mode
debug_mode == TRUE

\* __sanitize_sensitive_parts(message, hidden_parts): the set of its results.
\* The loop goes through a set of strings, whose order the interpreter fixes
\* per process, and a part that is inside another (cookie in set-cookie)
\* gives a different result when it comes first.  A part that does not occur
\* leaves the message as it is, whenever its turn comes.
RECURSIVE sanitize_sensitive_parts(_, _)
sanitize_sensitive_parts(message, hidden_parts) ==
    LET present == {part \in hidden_parts : contains(message, part)}
    IN  IF present = {} THEN {message}
        ELSE UNION { sanitize_sensitive_parts(str_replace(message, part, S_mask),
                                              hidden_parts \ {part})
                     : part \in present }

\* _format_headers(headers): the set of its results
RECURSIVE format_headers(_)
format_headers(headers) ==
    IF headers = {} THEN {{}}
    ELSE LET h == CHOOSE h \in headers : TRUE
         IN  { {[name |-> h.name, value |-> value]} \cup rest :
                 value \in sanitize_sensitive_parts(h.value, sensitive_headers),
                 rest \in format_headers(headers \ {h}) }

\* _get_formatter that keeps looking after a formatter has accepted
get_formatter_Last(content_type) ==
    LET Loop[i \in 0..Len(log.formatters)] ==
            IF i = 0 THEN "None"
            ELSE IF can_handle(log.formatters[i], content_type)
                 THEN log.formatters[i]
                 ELSE Loop[i - 1]
    IN  Loop[Len(log.formatters)]

\* _get_formatter(content_type), over self.formatters
get_formatter(content_type) ==
    LET Loop[i \in 1..(Len(log.formatters) + 1)] ==
            IF i > Len(log.formatters) THEN "None"
            ELSE IF can_handle(log.formatters[i], content_type)
                 THEN log.formatters[i]
                 ELSE Loop[i + 1]
    IN  Loop[1]

\* response.headers.get(key, default)
Headers_get(headers, key, default) ==
    IF \E h \in headers : h.name = lower(key)
    THEN (CHOOSE h \in headers : h.name = lower(key)).value
    ELSE default

NoBody == [kind |-> "none", formatter |-> "", s |-> <<>>]

\* _format_content(response).  kind "raise": the formatter's format raised
\* and nothing caught it.  What a formatter other than TextFormatter and
\* BinaryFormatter makes of the content is not looked into: kind "formatted"
\* stands for the string it returns.
format_content(response) ==
    IF response.status_code = 204 \/ response.content = <<>>
    THEN NoBody
    ELSE LET content_type ==
                 lower(Headers_get(response.headers, S_content_type, <<>>))
             formatter == get_formatter(content_type)
         IN  CASE formatter = "BadFormatter" ->
                    [kind |-> "raise", formatter |-> formatter, s |-> <<>>]
               [] formatter = "TextFormatter" ->
                    [kind |-> "str", formatter |-> formatter,
                     s |-> TextFormatter_format(response.content,
                                                response.max_body_length)]
               [] formatter = "BinaryFormatter" ->
                    [kind |-> "str", formatter |-> formatter,
                     s |-> BinaryFormatter_format(response.content,
                                                  response.max_body_length)]
               [] formatter = "None" ->
                    [kind |-> "str", formatter |-> formatter,
                     s |-> <<"[","N","o"," ","f","o","r","m","a","t","t","e","r"," ","a","v","a","i","l","a","b","l","e"," ","f","o","r"," ","c","o","n","t","e","n","t","-","t","y","p","e",":"," ">>
                           \o content_type \o <<"]">>]
               [] OTHER ->
                    [kind |-> "formatted", formatter |-> formatter,
                     s |-> response.content]

\* log_response(response): the headers are formatted first, then the
\* content; logger.debug is called last, so nothing is logged when
\* _format_content raises
HttpResponseLogger_log_response ==
    /\ log.pc = "ready"
    /\ debug_mode
    /\ LET formatted_content == format_content(log)
       IN  IF formatted_content.kind = "raise"
           THEN /\ log' = [log EXCEPT
                             !.pc = "raised",
                             !.formatter = formatted_content.formatter]
                /\ ret' = Raised("log_response", 0, None, "Exception")
           ELSE /\ \E headers \in format_headers(log.headers) :
                     log' = [log EXCEPT
                               !.pc = "logged",
                               !.formatter = formatted_content.formatter,
                               !.log_data =
                                   [headers |-> headers,
                                    body |-> IF formatted_content.kind = "str"
                                                /\ formatted_content.s = <<>>
                                             THEN NoBody
                                             ELSE formatted_content]]
                /\ ret' = Done("log_response")
    /\ UNCHANGED <<facade, builders, lists, io, call, transports, scope, flow>>

\* logger._get_formatter(content_type)
HttpResponseLogger_get_formatter(content_type) ==
    /\ log.pc = "ready"
    /\ log' = [log EXCEPT !.pc = "selected",
                          !.content_type = content_type,
                          !.formatter = get_formatter(content_type)]
    /\ ret' = [Done("_get_formatter") EXCEPT !.result = "formatter"]
    /\ UNCHANGED <<facade, builders, lists, io, call, transports, scope, flow>>

\* bytes of a response body
MaxBody == 2

Bytes == {"a", "C3", "A9"}

Bodies == UNION {[1..n -> Bytes] : n \in 0..MaxBody}

MaxBodyLengths == {0, 1}

LogStatusCodes == {200, 204}

ResponseContentTypes ==
    { {}, {Header(S_content_type, S_text_plain)},
      {Header(S_content_type, <<"T","e","x","t","/","P","l","a","i","n">>)},
      {Header(S_content_type, <<"t","e","x","t","/","p","l","a","i","n",";"," ","c","h","a","r","s","e","t","=","u","t","f","-","8">>)} }

OtherHeaders ==
    { {Header(<<"a","u","t","h","o","r","i","z","a","t","i","o","n">>, <<"s","e","c","r","e","t">>)},
      {Header(<<"x","-","t","r","a","c","e">>, <<"c","o","o","k","i","e","=","1">>)},
      {Header(<<"s","e","t","-","c","o","o","k","i","e">>, <<"s","e","t","-","c","o","o","k","i","e">>)},
      {Header(<<"x","-","i","d">>, <<"a","b","c">>)} }

ContentTypes ==
    { <<>>, S_text_plain,
      <<"T","e","x","t","/","P","l","a","i","n">>,
      <<" ","t","e","x","t","/","p","l","a","i","n"," ">>,
      <<"t","e","x","t","/","p","l","a","i","n",";"," ","c","h","a","r","s","e","t","=","u","t","f","-","8">>,
      <<"a","p","p","l","i","c","a","t","i","o","n","/","j","s","o","n">>,
      <<"A","p","p","l","i","c","a","t","i","o","n","/","J","S","O","N",";"," ","c","h","a","r","s","e","t","=","u","t","f","-","8">>,
      <<"a","p","p","l","i","c","a","t","i","o","n","/","x","m","l">>,
      <<"t","e","x","t","/","x","m","l">>,
      <<"t","e","x","t","/","h","t","m","l">>,
      <<"t","e","x","t","/","c","s","v">>,
      <<"m","u","l","t","i","p","a","r","t","/","f","o","r","m","-","d","a","t","a",";"," ","b","o","u","n","d","a","r","y","=","x">>,
      <<"a","p","p","l","i","c","a","t","i","o","n","/","y","a","m","l">>,
      <<"t","e","x","t","/","y","a","m","l">>,
      <<"a","p","p","l","i","c","a","t","i","o","n","/","o","c","t","e","t","-","s","t","r","e","a","m">>,
      <<"a","p","p","l","i","c","a","t","i","o","n","/","u","n","k","n","o","w","n","-","t","y","p","e">>,
      <<"t","e","x","t","/","h","t","m","l",","," ","a","p","p","l","i","c","a","t","i","o","n","/","j","s","o","n">> }

InitLogger ==
    /\ facade \in Facades({BaseUrl}, {DEFAULT}, {NoKnownPaths})
    /\ facade.cls = "SyncClient"
    /\ builders = <<>>
    /\ lists = <<>>
    /\ ret = NoRet
    /\ io = NoIo
    /\ call = NoCall
    /\ transports = <<OpenTransport>>
    /\ scope = NoScope
    /\ flow = NoFlow
    /\ \E max_body_length \in MaxBodyLengths, status_code \in LogStatusCodes,
          content_type \in ResponseContentTypes, other \in OtherHeaders,
          content \in Bodies :
            log = [NoLog EXCEPT !.pc = "ready",
                                !.formatters = formatters,
                                !.max_body_length = max_body_length,
                                !.status_code = status_code,
                                !.headers = content_type \cup other,
                                !.content = content]

NextLogger ==
    \/ HttpResponseLogger_log_response
    \/ \E content_type \in ContentTypes :
            HttpResponseLogger_get_formatter(content_type)

SpecLogger == InitLogger /\ [][NextLogger]_vars

\* registries: the default one, and the default one after
\* logger.formatters.insert(0, BadFormatter())
Registries == { formatters, <<"BadFormatter">> \o formatters }

\* a logger whose registry may have been changed, and a response
InitPlugged ==
    /\ facade \in Facades({BaseUrl}, {DEFAULT}, {NoKnownPaths})
    /\ facade.cls = "SyncClient"
    /\ builders = <<>>
    /\ lists = <<>>
    /\ ret = NoRet
    /\ io = NoIo
    /\ call = NoCall
    /\ transports = <<OpenTransport>>
    /\ scope = NoScope
    /\ flow = NoFlow
    /\ \E registry \in Registries, max_body_length \in MaxBodyLengths,
          status_code \in LogStatusCodes,
          content_type \in ResponseContentTypes, content \in Bodies :
            log = [NoLog EXCEPT !.pc = "ready",
                                !.formatters = registry,
                                !.max_body_length = max_body_length,
                                !.status_code = status_code,
                                !.headers = content_type,
                                !.content = content]

SpecPlugged == InitPlugged /\ [][NextLogger]_vars

(***************************************************************************)
(* Reading a state.                                                        *)
(***************************************************************************)
Made == 1..Len(builders)

SegmentsOf(i) == lists[builders[i].segments]

PiecesOf(i) ==
    IF builders[i].cls = "SyncDynamicClient"
    THEN Sync_transformed_segments(builders[i])
    ELSE Async_transformed_segments(builders[i])

PathOf(i) ==
    IF builders[i].cls = "SyncDynamicClient"
    THEN Sync_transform_path(builders[i])
    ELSE Async_transform_path(builders[i])

\* builder i was made by attribute accesses alone, the first on the facade
RECURSIVE AttributesOnly(_)
AttributesOnly(i) ==
    /\ builders[i].via.op = "getattr"
    /\ \/ builders[i].parent = 0
       \/ builders[i].parent > 0 /\ AttributesOnly(builders[i].parent)

\* the names a1..an of those accesses, in the order they were made
RECURSIVE AttributeNames(_)
AttributeNames(i) ==
    IF builders[i].parent = 0 THEN <<builders[i].via.arg.s>>
    ELSE Append(AttributeNames(builders[i].parent), builders[i].via.arg.s)

\* what the chain of operations that made builder i yields when it runs
\* alone, on values: no heap, no other builder
RECURSIVE AloneFormat(_)
AloneFormat(i) ==
    LET b == builders[i] IN
    IF b.parent = 0 THEN facade.segment_format
    ELSE IF b.parent = -1 THEN DEFAULT
    ELSE IF b.via.op = "with_format" THEN b.via.arg.f
    ELSE AloneFormat(b.parent)

RECURSIVE AloneSegments(_)
AloneSegments(i) ==
    LET b == builders[i] IN
    IF b.parent = 0
    THEN <<[name |-> b.via.arg.s, format |-> facade.segment_format,
            value |-> None]>>
    ELSE IF b.parent = -1 THEN <<>>
    ELSE LET old == AloneSegments(b.parent)
             n == Len(old)
         IN  CASE b.via.op = "getattr" ->
                    Append(old, [name |-> b.via.arg.s,
                                 format |-> AloneFormat(b.parent),
                                 value |-> None])
               [] b.via.op = "getitem" /\ b.via.arg.kind = "format" ->
                    [old EXCEPT ![n].format = b.via.arg.f]
               [] b.via.op = "getitem" /\ b.via.arg.kind # "format" ->
                    [old EXCEPT ![n].value = b.via.arg]
               [] OTHER -> old

(***************************************************************************)
(* Path building: attribute access, index access, with_format.             *)
(***************************************************************************)
\* C1: a builder made by n >= 1 attribute accesses a1..an (the first on the
\* facade, no index access and no with_format between them) under default
\* format F and an empty known_paths resolves to
\* format(a1,F) + "/" + ... + "/" + format(an,F), in the order of the accesses.
C1_AttributeChainPath ==
    \A i \in Made :
        (AttributesOnly(i) /\ facade.known_paths = NoKnownPaths) =>
            PathOf(i) =
                join(<<"/">>,
                     [k \in 1..Len(AttributeNames(i)) |->
                        transform(facade.segment_format, NoKnownPaths,
                                  AttributeNames(i)[k])])

\* three attribute accesses under camel: user_id.posts.user_id
C1_Witness ==
    \E i \in Made :
        /\ AttributesOnly(i)
        /\ facade.known_paths = NoKnownPaths
        /\ facade.segment_format = CAMEL
        /\ AttributeNames(i) = <<S_user_id, S_posts, S_user_id>>
        /\ PathOf(i) = <<"u","s","e","r","I","d","/","p","o","s","t","s","/",
                         "u","s","e","r","I","d">>

\* C3: after an index access with a literal key v (str or int) on a builder
\* with at least one segment, the last segment renders as exactly str(v),
\* whatever its name and format: one piece per segment, and the last piece
\* is str(v), not the name.
C3_LiteralValueRenders ==
    \A i \in Made :
        LET b == builders[i] IN
        (b.via.op = "getitem" /\ b.via.arg.kind \in {"str", "int"}) =>
            /\ Len(PiecesOf(i)) = Len(SegmentsOf(b.parent))
            /\ PiecesOf(i)[Len(PiecesOf(i))] = str(b.via.arg)

\* user_id.user_id[123] resolves to user-id/123 under kebab
C3_Witness ==
    \E i \in Made :
        /\ builders[i].via = Via("getitem", IntKey(123))
        /\ builders[i].segment_format = KEBAB
        /\ SegmentsOf(i)[Len(SegmentsOf(i))].name = S_user_id
        /\ PathOf(i) = <<"u","s","e","r","-","i","d","/","1","2","3">>

\* C4: an index access with a SegmentFormat K on a builder whose last segment
\* is an unvalued name n, n no key of known_paths, makes the last segment
\* render as the K-format of n, also when the builder's default format is not
\* K; every other segment renders as before.
C4_FormatKeyRendersLast ==
    \A i \in Made :
        LET b == builders[i]
            n == Len(SegmentsOf(i))
        IN  (/\ b.via.op = "getitem"
             /\ b.via.arg.kind = "format"
             /\ SegmentsOf(i)[n].value = None
             /\ SegmentsOf(i)[n].name \notin DOMAIN b.known_paths) =>
                /\ PiecesOf(i)[n] =
                        transform(b.via.arg.f, b.known_paths, SegmentsOf(i)[n].name)
                /\ \A k \in 1..(n - 1) : PiecesOf(i)[k] = PiecesOf(b.parent)[k]

\* C5: with_format(F2) returns a builder whose default format is F2 and which
\* applies F2 only going forward: every segment already present keeps its
\* format field and renders as it rendered before the call.
C5_WithFormatGoingForward ==
    \A i \in Made :
        LET b == builders[i] IN
        b.via.op = "with_format" =>
            /\ b.segment_format = b.via.arg.f
            /\ SegmentsOf(i) = SegmentsOf(b.parent)
            /\ PiecesOf(i) = PiecesOf(b.parent)

\* C7: an index access on a builder with zero segments raises ValueError, for
\* every kind of key and in both classes; no builder is made and the
\* zero-segment builder (and every other one) is left as it was.
C7_IndexBeforeSegmentRaises ==
    [][(ret'.op = "getitem" /\ lists[builders[ret'.recv].segments] = <<>>) =>
            /\ ret'.result = "raise"
            /\ ret'.exc = "ValueError"
            /\ builders' = builders
            /\ lists' = lists]_vars

\* a SegmentFormat key on a zero-segment AsyncDynamicClient
C7_Witness ==
    /\ ret.op = "getitem"
    /\ ret.exc = "ValueError"
    /\ ret.arg.kind = "format"
    /\ builders[ret.recv].cls = "AsyncDynamicClient"
    /\ SegmentsOf(ret.recv) = <<>>

\* C8: builders are persistent.  Whatever operations run on whichever
\* builders, in whatever order, a builder that exists keeps its segments, its
\* default format and its resolved path, and every builder holds exactly the
\* segments and the format its own chain of operations yields when run alone.
C8_Persistent ==
    /\ [](\A i \in Made :
            /\ SegmentsOf(i) = AloneSegments(i)
            /\ builders[i].segment_format = AloneFormat(i))
    /\ [][\A i \in Made :
            /\ i <= Len(builders')
            /\ builders'[i] = builders[i]
            /\ lists'[builders[i].segments] = lists[builders[i].segments]]_vars

\* a prefix builder with two branches: one extended by a name, the other
\* given another format (and holding the prefix's own list object)
C8_Witness ==
    \E p, a, b \in Made :
        /\ builders[a].parent = p /\ builders[a].via.op = "getattr"
        /\ builders[b].parent = p /\ builders[b].via.op = "with_format"
        /\ builders[b].segments = builders[p].segments
        /\ Len(SegmentsOf(a)) = Len(SegmentsOf(p)) + 1

\* C9 as claimed: attribute access with any identifier, on the facade or on a
\* builder, returns a new builder whose segments are the old ones plus
\* {name, current default format, no value}.
C9_AnyNameExtends ==
    ret.op = "getattr" =>
        /\ ret.result = "builder"
        /\ ret.new = Len(builders)
        /\ builders[ret.new].parent = ret.recv
        /\ SegmentsOf(ret.new) =
                (IF ret.recv = 0 THEN <<>> ELSE SegmentsOf(ret.recv)) \o
                <<[name |-> ret.arg.s,
                   format |-> IF ret.recv = 0 THEN facade.segment_format
                              ELSE builders[ret.recv].segment_format,
                   value |-> None]>>

\* the attributes the normal lookup finds on the receiver of the last operation
ReceiverAttrs ==
    IF ret.recv = 0
    THEN (IF facade.cls = "SyncClient" THEN SyncClientAttrs ELSE AsyncClientAttrs)
    ELSE (IF builders[ret.recv].cls = "SyncDynamicClient"
          THEN SyncDynamicClientAttrs ELSE AsyncDynamicClientAttrs)

\* C9 amended: attribute access extends the path for every identifier that is
\* not already an attribute of the receiver; a name that is one (a field or a
\* method, such as get on a builder) yields that attribute and no builder.
C9_UnboundNameExtends ==
    ret.op = "getattr" =>
        IF ret.arg.s \in ReceiverAttrs
        THEN ret.result = "attribute" /\ ret.new = 0
        ELSE /\ ret.result = "builder"
             /\ ret.new = Len(builders)
             /\ builders[ret.new].parent = ret.recv
             /\ builders[ret.new].segment_format =
                    (IF ret.recv = 0 THEN facade.segment_format
                     ELSE builders[ret.recv].segment_format)
             /\ builders[ret.new].known_paths =
                    (IF ret.recv = 0 THEN facade.known_paths
                     ELSE builders[ret.recv].known_paths)
             /\ SegmentsOf(ret.new) =
                    (IF ret.recv = 0 THEN <<>> ELSE SegmentsOf(ret.recv)) \o
                    <<[name |-> ret.arg.s,
                       format |-> IF ret.recv = 0 THEN facade.segment_format
                                  ELSE builders[ret.recv].segment_format,
                       value |-> None]>>

\* get on the facade made a builder; get on that builder is its verb method
C9_Witness ==
    /\ ret.op = "getattr" /\ ret.arg.s = S_get
    /\ ret.recv > 0 /\ ret.result = "attribute"
    /\ builders[ret.recv].parent = 0
    /\ builders[ret.recv].via = Via("getattr", StrKey(S_get))

(***************************************************************************)
(* The chained expression and its request.                                 *)
(***************************************************************************)
\* the operations that made builder i, the first one on the facade
RECURSIVE ViaChain(_)
ViaChain(i) ==
    IF builders[i].parent <= 0 THEN <<builders[i].via>>
    ELSE Append(ViaChain(builders[i].parent), builders[i].via)

\* client.users["john"].posts[123].get() on a facade with base URL http://x
\* and default kebab format
UsersJohnPosts123 ==
    /\ ret.op = "request"
    /\ ret.arg = MethodKey("GET")
    /\ facade.base_url = BaseUrl
    /\ facade.segment_format = KEBAB
    /\ builders[1].parent = 0
    /\ ViaChain(ret.recv) = <<Via("getattr", StrKey(S_users)),
                              Via("getitem", StrKey(S_john)),
                              Via("getattr", StrKey(S_posts)),
                              Via("getitem", IntKey(123))>>

\* C2 as claimed: the chain users -> ["john"] -> posts -> [123] followed by
\* GET issues the request to http://x/users/john/posts/123.
C2_NamesAndLiteralsInUrl ==
    UsersJohnPosts123 =>
        io[1] = Event("request",
                      Response(io[1].response.status_code, "GET",
                               BaseUrl \o <<"/">> \o S_users \o <<"/">> \o S_john
                                   \o <<"/">> \o S_posts \o <<"/","1","2","3">>,
                               NoKwargs))

\* C2 amended: that chain followed by GET issues the request to
\* http://x/john/123: each literal takes the place of the name it is applied
\* to, so neither users nor posts is an element of the URL.
C2_LiteralsReplaceNamesInUrl ==
    UsersJohnPosts123 =>
        io[1] = Event("request",
                      Response(io[1].response.status_code, "GET",
                               BaseUrl \o <<"/">> \o S_john \o <<"/","1","2","3">>,
                               NoKwargs))

\* the GET of that chain answered with 200 and returned
C2_Witness ==
    /\ UsersJohnPosts123
    /\ facade.cls = "SyncClient"
    /\ ret.result = "response"
    /\ io[1].response.status_code = 200
    /\ io[1].response.url = <<"h","t","t","p",":","/","/","x","/",
                              "j","o","h","n","/","1","2","3">>

StatusClass == io[1].response.status_code \div 100

C11_ScopeClosesTransport ==
    /\ [](scope.pc = "after" =>
            /\ transports[facade._client].is_closed
            /\ scope.propagated = scope.raised)
    /\ [](ret.result = "raise" => ret.op = "exit" /\ scope.raised)
    /\ [][/\ facade'._client = facade._client
          /\ Len(transports') = Len(transports)
          /\ ret'.op \in {"close", "exit"} =>
                /\ transports'[facade._client].is_closed
                /\ transports'[facade._client].close_calls =
                        transports[facade._client].close_calls + 1]_vars

\* an AsyncClient closed once more after its scope was left by an exception
C11_Witness ==
    /\ facade.cls = "AsyncClient"
    /\ scope.pc = "after" /\ scope.raised /\ scope.propagated
    /\ ret = Done("close")
    /\ transports[facade._client] = [is_closed |-> TRUE, close_calls |-> 2]

(***************************************************************************)
(* The verb methods.                                                       *)
(***************************************************************************)
\* the HTTP method of the same name as a verb method
MethodNamed ==
    [get |-> "GET", post |-> "POST", put |-> "PUT", delete |-> "DELETE",
     patch |-> "PATCH", head |-> "HEAD", options |-> "OPTIONS",
     trace |-> "TRACE", connect |-> "CONNECT"]

\* C12: every verb method makes one request with the HTTP method of its own
\* name and forwards to the transport exactly the keyword arguments whose
\* value is not None, names and values unchanged: None is dropped, 0, the
\* empty string and the empty mapping are forwarded.
C12_VerbsForwardNonNone ==
    ret.op \in DOMAIN MethodNamed =>
        LET sent == io[1].response IN
        /\ io[1].e = "request"
        /\ \A k \in 2..Len(io) : io[k].e # "request"
        /\ sent.method = MethodNamed[ret.op]
        /\ ret.arg = MethodKey(MethodNamed[ret.op])
        /\ DOMAIN sent.kwargs = {k \in DOMAIN ret.kwargs : ret.kwargs[k] # None}
        /\ \A k \in DOMAIN sent.kwargs : sent.kwargs[k] = ret.kwargs[k]

\* delete(params=None, json=0) on an AsyncDynamicClient sends DELETE with json=0
C12_Witness ==
    /\ ret.op = "delete"
    /\ builders[ret.recv].cls = "AsyncDynamicClient"
    /\ ret.kwargs = [params |-> None, json |-> IntKey(0)]
    /\ io[1].response.method = "DELETE"
    /\ io[1].response.kwargs = [json |-> IntKey(0)]

(***************************************************************************)
(* The factory.                                                            *)
(***************************************************************************)
\* C14: ClientFactory.create returns the async facade exactly when
\* client_type is ASYNC and the sync facade otherwise (SYNC, the default, an
\* unknown value: never an error); the facade carries the base URL and the
\* segment format given, and the known_paths given, an empty dict for None.
C14_FactoryChoosesFacade ==
    ret.op = "create" =>
        /\ ret.result = "facade"
        /\ facade.cls = "AsyncClient" <=> ret.kwargs.client_type = ClientType_ASYNC
        /\ facade.cls = "SyncClient" <=> ret.kwargs.client_type # ClientType_ASYNC
        /\ facade.base_url = ret.kwargs.base_url
        /\ facade.segment_format = ret.kwargs.segment_format
        /\ facade.known_paths =
                (IF ret.kwargs.known_paths.kind = "none" THEN <<>>
                 ELSE ret.kwargs.known_paths.dict)

\* an unknown client_type and known_paths None: a SyncClient with an empty dict
C14_Witness ==
    /\ ret.op = "create"
    /\ ret.kwargs.client_type = "unknown"
    /\ ret.kwargs.known_paths.kind = "none"
    /\ facade.cls = "SyncClient"
    /\ facade.known_paths = <<>>
    /\ facade.segment_format = SNAKE

(***************************************************************************)
(* The sync and the async variant, side by side.                           *)
(***************************************************************************)
\* the k-th builder of the sync chain and the k-th of the async chain hold
\* equal segments, formats and known_paths and resolve to the same URL
TwinsAgree ==
    \A k \in 1..Cardinality(SyncMade) :
        k <= Cardinality(AsyncMade) =>
            LET s == Nth(SyncMade, k)
                a == Nth(AsyncMade, k)
            IN  /\ SegmentsOf(s) = SegmentsOf(a)
                /\ builders[s].segment_format = builders[a].segment_format
                /\ builders[s].known_paths = builders[a].known_paths
                /\ Sync_get_url(builders[s]) = Async_get_url(builders[a])

\* the step is the async side going through the operation that gave the sync
\* side an attribute or an error
AsyncAnswers ==
    /\ SyncPending
    /\ ret'.recv \in AsyncMade /\ ret'.op = ret.op /\ ret'.arg = ret.arg

\* names that are an attribute of the builder class of one variant only
OneVariantOnly ==
    (SyncDynamicClientAttrs \ AsyncDynamicClientAttrs) \cup
    (AsyncDynamicClientAttrs \ SyncDynamicClientAttrs)

RequestUrl == io[1].response.url

\* the base URL the facade was given, without trailing slashes
BareBase == rstrip(facade.base_url, "/")

\* C15 as claimed: for every base URL, with or without a trailing slash, and
\* every resolved path, the URL a request goes to is the base URL, exactly
\* one slash, and the first path element: no doubled slash at the join.
C15_OneSlashAtJoin ==
    (io # NoIo /\ ret.op = "request") =>
        /\ Len(RequestUrl) >= Len(BareBase) + 2
        /\ SubSeq(RequestUrl, 1, Len(BareBase)) = BareBase
        /\ RequestUrl[Len(BareBase) + 1] = "/"
        /\ RequestUrl[Len(BareBase) + 2] # "/"

(***************************************************************************)
(* MultiAuth.                                                              *)
(***************************************************************************)
NumMethods == Len(flow.auth_methods)

\* C16 as claimed: for one request and k configured schemes the request is
\* handed over for sending once, not once per scheme, and the request handed
\* over carries the credentials of all k schemes.
C16_OneHandOverAllCredentials ==
    (flow.pc = "done" /\ NumMethods >= 1) =>
        /\ Len(flow.yields) = 1
        /\ \A j \in 1..NumMethods :
                CredentialOf(flow.auth_methods[j]) \in flow.yields[1]

\* the flow yields once per method, in list order, each yield but the first
\* after a response to the one before was sent in, and sending a response
\* after the last yield ends the flow with StopIteration
YieldsInOrder ==
    /\ Len(flow.yields) = flow.done /\ flow.done <= NumMethods
    /\ flow.pc = "created" => flow.done = 0 /\ flow.sent = <<>>
    /\ flow.pc = "yielded" =>
            /\ flow.done >= 1 /\ Len(flow.sent) = flow.done - 1
            /\ ret.result = "request"
    /\ flow.pc = "done" =>
            /\ flow.done = NumMethods /\ Len(flow.sent) = NumMethods
            /\ ret.result = "raise" /\ ret.exc = "StopIteration"
    /\ (ret.op = "send" /\ ret.result = "raise") => NumMethods >= 1
    /\ \A i \in 1..Len(flow.yields) :
            CredentialOf(flow.auth_methods[i]) \in flow.yields[i]

\* C17 as claimed: for k >= 1 single-step methods the flow yields k requests
\* in list order, the i-th only after a response to the (i-1)-th was sent in;
\* the i-th yielded request carries the header set by the i-th method and
\* those set by the methods before it; a response sent after the k-th yield
\* ends the flow.
C17_YieldCarriesAllEarlier ==
    NumMethods >= 1 =>
        /\ YieldsInOrder
        /\ \A i \in 1..Len(flow.yields) : \A j \in 1..i :
                CredentialOf(flow.auth_methods[j]) \in flow.yields[i]

\* C17 amended: the same, except that the i-th yielded request carries, for
\* each header name written by the first i methods, the value of the last of
\* them that wrote that name (names compared without regard to case): a
\* later method replaces what an earlier one wrote under the same name.  The
\* headers the request had under other names stay.
C17_YieldCarriesLastWritten ==
    NumMethods >= 1 =>
        /\ YieldsInOrder
        /\ \A i \in 1..Len(flow.yields) :
                flow.yields[i] =
                    {CredentialOf(flow.auth_methods[j]) : j \in
                        {j \in 1..i : \A l \in (j + 1)..i :
                            CredentialOf(flow.auth_methods[l]).name #
                            CredentialOf(flow.auth_methods[j]).name}}
                    \cup
                    {h \in RequestHeaders : \A j \in 1..i :
                        CredentialOf(flow.auth_methods[j]).name # h.name}

\* a flow over a bearer token, an API key and a second bearer token that
\* has yielded three times and ended on the third response
C17_Witness ==
    /\ flow.pc = "done"
    /\ flow.auth_methods = <<BearerAuth(S_t, S_Authorization),
                             ApiKeyAuth(S_k, S_X_API_Key),
                             BearerAuth(S_u, S_Authorization)>>
    /\ Len(flow.yields) = 3
    /\ flow.sent = <<200, 401, 200>>
    /\ Header(S_Authorization, <<"B","e","a","r","e","r"," ","t">>)
            \in flow.yields[2]
    /\ Header(S_Authorization, <<"B","e","a","r","e","r"," ","u">>)
            \in flow.yields[3]
    /\ Header(S_X_API_Key, S_k) \in flow.yields[3]
    /\ ret = Raised("send", 0, None, "StopIteration")

(***************************************************************************)
(* The response logger.                                                    *)
(***************************************************************************)
\* the value logged for the header name
LoggedValue(name) ==
    (CHOOSE h \in log.log_data.headers : h.name = name).value

\* C18 as claimed: when a response is logged, the logged value of a header
\* whose name is in the sensitive set is the mask, and the logged value of a
\* header whose name is not in the set is its original value.
C18_SensitiveValuesMasked ==
    log.pc = "logged" =>
        /\ {h.name : h \in log.log_data.headers} = {h.name : h \in log.headers}
        /\ \A h \in log.headers :
                LoggedValue(h.name) =
                    IF h.name \in sensitive_headers THEN S_mask ELSE h.value

\* the response is text/plain and the logger has a maximum length above 0
TextPlainLogged ==
    /\ log.pc = "logged"
    /\ lower(Headers_get(log.headers, S_content_type, <<>>)) = S_text_plain
    /\ log.max_body_length > 0

\* the body field is as the claim has it, lengths counted in characters of
\* the decoded text
BodyCutToMax ==
    LET text == decode(log.content)
        L == log.max_body_length
        body == log.log_data.body
    IN  /\ Len(text) > L =>
                body.kind = "str" /\ body.s = SubSeq(text, 1, L) \o S_truncated
        /\ (Len(text) <= L /\ text # <<>>) => body.kind = "str" /\ body.s = text
        /\ text = <<>> => body.kind = "none"
        /\ ret = Done("log_response")

\* C19 as claimed: for a text/plain response and a maximum length L > 0, a
\* body longer than L is logged as its first L characters and the marker
\* "... [truncated]", a body of length L or less is logged as it is, an
\* empty body gives no body field, and logging does not raise.
C19_TextBodyCutToMax ==
    TextPlainLogged => BodyCutToMax

\* C19 amended: the same for every status code other than 204; for a
\* response with status 204 no body field is logged, whatever the body.
C19_TextBodyCutToMaxUnless204 ==
    TextPlainLogged =>
        IF log.status_code = 204
        THEN log.log_data.body.kind = "none" /\ ret = Done("log_response")
        ELSE BodyCutToMax

\* a 200 text/plain response with body "aa" logged with maximum length 1
C19_Witness ==
    /\ TextPlainLogged
    /\ log.status_code = 200
    /\ log.max_body_length = 1
    /\ log.content = <<"a", "a">>
    /\ log.log_data.body =
            [kind |-> "str", formatter |-> "TextFormatter",
             s |-> <<"a">> \o S_truncated]

\* the formatters that accept the content type, by position in the registry
Accepting(content_type) ==
    {i \in 1..Len(formatters) : can_handle(formatters[i], content_type)}

\* no content type of a formatter other than the binary one occurs in it
NoMatch(content_type) ==
    /\ \A i \in 1..6 : \A ct \in content_types(formatters[i]) :
            ~contains(lower(content_type), ct)
    /\ lower(strip_whitespace(content_type)) # S_text_plain

\* C20: with the default registry, selection returns the first formatter in
\* registry order that accepts the content type; for every content type, the
\* empty one included, a formatter is returned, and when no other formatter
\* accepts it that is the binary formatter, the last of the registry.
C20_FirstAcceptingFormatter ==
    log.pc = "selected" =>
        /\ log.formatter # "None"
        /\ \E i \in Accepting(log.content_type) :
                /\ log.formatter = formatters[i]
                /\ \A j \in Accepting(log.content_type) : i <= j
        /\ NoMatch(log.content_type) =>
                /\ log.formatter = "BinaryFormatter"
                /\ log.formatter = formatters[Len(formatters)]
        /\ ret.result = "formatter"

\* the content type "text/html, application/json", which the JSON, the HTML
\* and the binary formatter accept, went to the JSON formatter
C20_Witness ==
    /\ log.pc = "selected"
    /\ Accepting(log.content_type) = {1, 3, 8}
    /\ log.formatter = "JsonFormatter"

(***************************************************************************)
(* The case-format table, character by character.                          *)
(***************************************************************************)
\* the positions of s that hold no underscore, in order
KeptPositions(s) ==
    SelectSeq([i \in 1..Len(s) |-> i], LAMBDA i : s[i] # "_")

\* position i starts a token of s split on underscores
TokenStart(s, i) == i = 1 \/ s[i - 1] = "_"

\* position i lies in the first token
InFirstToken(s, i) == \A j \in 1..i : s[j] # "_"

Capitalized(s, i) ==
    IF TokenStart(s, i) THEN UpperChar(s[i]) ELSE LowerChar(s[i])

TableForm(format, s) ==
    LET kept == KeptPositions(s)
    IN  CASE format = CAMEL ->
                [k \in 1..Len(kept) |->
                    IF InFirstToken(s, kept[k]) THEN s[kept[k]]
                    ELSE Capitalized(s, kept[k])]
          [] format = FLAT ->
                [k \in 1..Len(kept) |-> LowerChar(s[kept[k]])]
          [] format = KEBAB ->
                [i \in 1..Len(s) |->
                    IF s[i] = "_" THEN "-" ELSE LowerChar(s[i])]
          [] format = PASCAL ->
                [k \in 1..Len(kept) |-> Capitalized(s, kept[k])]
          [] format = SCREAMING_SNAKE ->
                [i \in 1..Len(s) |-> UpperChar(s[i])]
          [] format = SNAKE ->
                [i \in 1..Len(s) |->
                    IF s[i] = "-" THEN "_" ELSE LowerChar(s[i])]

\* C22: with an empty override table, transform gives for every name of
\* letters, '_' and '-' what the case-format table says: camel leaves the
\* first '_'-separated token as it is and capitalizes the others, flat drops
\* every '_' and lower-cases, kebab turns '_' into '-' and lower-cases, pascal
\* capitalizes every token, screaming_snake upper-cases and keeps '_', snake
\* turns '-' into '_' and lower-cases.
C22_CaseFormatTable ==
    (/\ call.done
     /\ call.known_paths = NoKnownPaths
     /\ call.segment_format \in SegmentFormat) =>
        call.result = TableForm(call.segment_format, call.segment)

\* B_a in camel case is BA: the first token kept, the second capitalized
C22_Witness ==
    /\ call.done
    /\ call.known_paths = NoKnownPaths
    /\ call.segment_format = CAMEL
    /\ call.segment = <<"B","_","a">>
    /\ call.result = <<"B","A">>

\* C23: a segment_format that is no member of SegmentFormat is no error: for
\* every name that is not a key of the override table, transform returns
\* what the kebab format returns for that name.
C23_UnknownFormatIsKebab ==
    (/\ call.done
     /\ call.segment_format \notin SegmentFormat
     /\ call.segment \notin DOMAIN call.known_paths) =>
        /\ call.result = TableForm(KEBAB, call.segment)
        /\ call.result = transform(KEBAB, call.known_paths, call.segment)

\* a_B under the unrecognised format and a table without that key is a-b
C23_Witness ==
    /\ call.done
    /\ call.segment_format = DummyFormat
    /\ call.known_paths = [k \in {<<"a","-","b">>, <<"a","B">>} |-> S_override]
    /\ call.segment = S_a_B
    /\ call.result = <<"a","-","b">>

(***************************************************************************)
(* create_auth.                                                            *)
(***************************************************************************)
\* the argument was given: it is a string that is not empty
Given(v) == v.kind = "str" /\ Len(v.s) > 0

\* the classes of the methods of the MultiAuth that was returned
MethodClasses == [i \in 1..Len(flow.auth_methods) |-> flow.auth_methods[i].cls]

\* C24: create_auth returns None or a MultiAuth with at least one method,
\* never one with an empty list: the methods are, in this order, a bearer
\* method iff a token is given, an API-key method iff an api_key is given and
\* a basic method iff both username and password are given; with no usable
\* credential the result is None.
C24_NoneOrMethodsInOrder ==
    ret.op = "create_auth" =>
        LET a == ret.kwargs
            bearer == IF Given(a.token) THEN <<"BearerAuth">> ELSE <<>>
            apikey == IF Given(a.api_key) THEN <<"ApiKeyAuth">> ELSE <<>>
            basic == IF Given(a.username) /\ Given(a.password)
                     THEN <<"BasicAuth">> ELSE <<>>
            expected == bearer \o apikey \o basic
        IN  /\ ret.result \in {"none", "MultiAuth"}
            /\ ret.result = "none" <=> expected = <<>>
            /\ ret.result = "none" => flow = NoFlow
            /\ ret.result = "MultiAuth" =>
                    /\ flow.pc = "auth"
                    /\ Len(flow.auth_methods) >= 1
                    /\ MethodClasses = expected
                    /\ \A i \in 1..Len(flow.auth_methods) :
                        LET m == flow.auth_methods[i]
                        IN  CASE m.cls = "BearerAuth" ->
                                    m.token = a.token.s
                                    /\ m.auth_header = a.auth_header
                              [] m.cls = "ApiKeyAuth" ->
                                    m.api_key = a.api_key.s
                                    /\ m.header_name = a.api_key_header
                              [] m.cls = "BasicAuth" ->
                                    m.username = a.username.s
                                    /\ m.password = a.password.s

\* create_auth(username="t") returned None, though an argument was given
C24_Witness ==
    /\ ret.op = "create_auth"
    /\ ret.kwargs.token = None /\ ret.kwargs.api_key = None
    /\ ret.kwargs.username = StrKey(S_t) /\ ret.kwargs.password = None
    /\ ret.result = "none"
    /\ flow = NoFlow

(***************************************************************************)
(* Formatter failures, truncation by every formatter, the text formatter.  *)
(***************************************************************************)
\* C21 as claimed: a failure while formatting a response body, a formatter
\* that raises included, is never propagated: log_response returns normally
\* and a log record is made.
C21_FormatFailureNotPropagated ==
    (ret.op = "log_response") =>
        /\ ret = Done("log_response")
        /\ log.pc = "logged"

\* C25 as claimed: for every response with a body that is not empty and
\* every content type, the body in the log record has at most
\* max_body_length characters plus the truncation marker, also when the
\* binary fallback formatter is the one selected.
C25_BodyAtMostMaxPlusMarker ==
    (/\ log.pc = "logged"
     /\ log.max_body_length > 0
     /\ log.log_data.body.kind = "str") =>
        Len(log.log_data.body.s) <= log.max_body_length + Len(S_truncated)

S_text_plain_charset ==
    <<"t","e","x","t","/","p","l","a","i","n",";"," ",
      "c","h","a","r","s","e","t","=","u","t","f","-","8">>

\* C29: the text formatter is selected only when the content type, trimmed
\* and lower-cased, is exactly text/plain; "text/plain; charset=utf-8" is
\* not accepted by it and, with the default registry, goes to the binary
\* fallback formatter, in a direct selection and when a response is logged.
C29_TextOnlyForExactTextPlain ==
    /\ log.pc = "selected" =>
            /\ log.formatter = "TextFormatter" <=>
                    lower(strip(log.content_type, " ")) = S_text_plain
            /\ log.content_type = S_text_plain_charset =>
                    log.formatter = "BinaryFormatter"
    /\ (log.pc = "logged" /\ log.log_data.body.kind # "none") =>
            LET ct == Headers_get(log.headers, S_content_type, <<>>)
            IN  /\ log.formatter = "TextFormatter" <=> lower(ct) = S_text_plain
                /\ ct = S_text_plain_charset =>
                        /\ log.formatter = "BinaryFormatter"
                        /\ log.log_data.body.s =
                               BinaryFormatter_format(log.content, 0)

\* a 200 response with content type text/plain; charset=utf-8 and body "a"
\* was logged by the binary formatter, with the body in base64
C29_Witness ==
    /\ log.pc = "logged"
    /\ log.status_code = 200
    /\ Headers_get(log.headers, S_content_type, <<>>) = S_text_plain_charset
    /\ log.content = <<"a">>
    /\ log.formatter = "BinaryFormatter"
    /\ contains(log.log_data.body.s, <<"\"","Y","Q","=","=","\"">>)
    /\ contains(log.log_data.body.s, <<"0",".","0","0","K","B">>)

(***************************************************************************)
(* Index access replaces the last segment.                                 *)
(***************************************************************************)
\* the step is an index access that returned a builder
IndexAccessed == ret'.op = "getitem" /\ ret'.result = "builder"

\* C26: on a builder with n >= 1 segments every index access returns a
\* builder with exactly n segments, the first n-1 identical to the
\* original's and the last with the same name; a literal key keeps the last
\* segment's format and sets its value to the key (replacing an earlier
\* literal), a case-format key keeps the last segment's value and sets its
\* format; client, default format and override table are unchanged.
C26_IndexAccessReplacesLast ==
    [][IndexAccessed =>
        LET self == builders[ret'.recv]
            made == builders'[ret'.new]
            old == lists[self.segments]
            new == lists'[made.segments]
            n == Len(old)
            key == ret'.arg
        IN  /\ n >= 1 /\ Len(new) = n
            /\ SubSeq(new, 1, n - 1) = SubSeq(old, 1, n - 1)
            /\ new[n].name = old[n].name
            /\ key.kind \in {"str", "int"} =>
                    new[n].format = old[n].format /\ new[n].value = key
            /\ key.kind = "format" =>
                    new[n].value = old[n].value /\ new[n].format = key.f
            /\ made.client = self.client
            /\ made.segment_format = self.segment_format
            /\ made.known_paths = self.known_paths
            /\ made.cls = self.cls
            /\ lists'[self.segments] = old]_vars

\* users["john"][SegmentFormat.CAMEL]: the format key kept the value john,
\* on one segment
C26_Witness ==
    /\ ret.op = "getitem" /\ ret.result = "builder"
    /\ ret.arg = FormatKey(CAMEL)
    /\ builders[ret.recv].cls = "SyncDynamicClient"
    /\ lists[builders[ret.recv].segments] =
            <<PathSegment(S_users, builders[ret.recv].segment_format,
                          StrKey(S_john))>>
    /\ lists[builders[ret.new].segments] =
            <<PathSegment(S_users, CAMEL, StrKey(S_john))>>

(***************************************************************************)
(* A request leaves its builder alone.                                     *)
(***************************************************************************)
\* the URL the last request was sent to
SentUrl == io[1].response.url

\* C27: issuing a request does not change the builder it is issued on: its
\* segments, default format and override table are the same before and
\* after the request, also when the request raises a status error, so the
\* successive verb calls on one builder all resolve to the same URL.
C27_RequestLeavesBuilder ==
    [][ret'.op \in RequestOps =>
        LET r == ret'.recv IN
        /\ builders' = builders
        /\ lists' = lists
        /\ lists'[builders'[r].segments] = lists[builders[r].segments]
        /\ builders'[r].segment_format = builders[r].segment_format
        /\ builders'[r].known_paths = builders[r].known_paths
        /\ ret.op \in RequestOps /\ ret.recv = r => SentUrl' = SentUrl]_vars

\* users["john"]: get and post were called before, and put, the third call
\* on the builder, was answered from <base_url>/john
C27_Witness ==
    /\ ret.op = "put" /\ ret.result = "response"
    /\ builders[ret.recv].cls = "SyncDynamicClient"
    /\ lists[builders[ret.recv].segments] =
            <<PathSegment(S_users, DEFAULT, StrKey(S_john))>>
    /\ SentUrl = facade.base_url \o <<"/">> \o S_john

(***************************************************************************)
(* MultiAuth and the requests of the flows it wraps.                       *)
(***************************************************************************)
\* C28: MultiAuth drops no request of a wrapped flow: every request that a
\* method's own flow yields, the follow-up request of a two-step method
\* included, is yielded by MultiAuth in the same order, and each wrapped
\* flow is resumed with the response to the request it yielded.
C28_NoWrappedRequestDropped ==
    /\ flow.yields =
            [i \in 1..Len(flow.inner_yields) |-> flow.inner_yields[i].headers]
    /\ Len(flow.inner_got) <= Len(flow.sent)
    /\ \A i \in 1..Len(flow.inner_got) :
            flow.inner_got[i].response = IntKey(flow.sent[i])

(***************************************************************************)
(* A literal value and the override table.                                 *)
(***************************************************************************)
\* segment k of builder i has a raw name that is a key of the override table
Overridden(i, k) == SegmentsOf(i)[k].name \in DOMAIN builders[i].known_paths

\* C30: a literal value takes precedence over the override table: when the
\* raw name of a segment is a key of the table and a literal value v has
\* been applied to it by index access, the segment renders as str(v) and
\* the override value does not appear; the override applies only to the
\* segments without a value.
C30_LiteralBeforeOverride ==
    \A i \in Made : \A k \in 1..Len(SegmentsOf(i)) :
        Overridden(i, k) =>
            LET segment == SegmentsOf(i)[k]
                override == builders[i].known_paths[segment.name]
            IN  IF segment.value.kind # "none"
                THEN /\ PiecesOf(i)[k] = str(segment.value)
                     /\ PiecesOf(i)[k] # override
                ELSE PiecesOf(i)[k] = override

\* posts["john"] on a facade whose table maps posts to My_Posts: the path
\* is john
C30_Witness ==
    \E i \in Made :
        /\ builders[i].cls = "SyncDynamicClient"
        /\ builders[i].known_paths = [k \in {S_posts} |-> S_My_Posts]
        /\ Len(SegmentsOf(i)) = 1
        /\ SegmentsOf(i)[1].name = S_posts
        /\ SegmentsOf(i)[1].value = StrKey(S_john)
        /\ PathOf(i) = S_john

====
